---- MODULE Spec2Model ----
(***************************************************************************)
(* Git Tutor's simulated version-control engine (src/git_tutor/script.js): *)
(* the SimulatedRepo class, the RemoteStore, the lesson setups and the     *)
(* App controller: the handlers that run a command line, load and reset    *)
(* a lesson, reset the repo, submit a quiz, with steps and badges.         *)
(*                                                                         *)
(* Representation.                                                         *)
(*  - A file content is a sequence of lines (strings); "" is << >>.        *)
(*  - A path -> content object is a function whose domain is the set of    *)
(*    its own keys; `undefined` is "not in the domain".                    *)
(*  - An index entry is [del, content]: del = TRUE is the null marker.     *)
(*  - A commit hash is a positive integer (0 is null); HashStr gives its   *)
(*    digits, which is what a hash prefix is matched against.  genHash     *)
(*    draws 12 random hex digits: the model takes the draw to be fresh     *)
(*    (nextHash), so two commits never share a hash.                       *)
(*  - A message is a sequence of strings, so that the generated messages   *)
(*    (Merge branch 'X', Revert "m") can be built from their parts.        *)
(*  - mergeState.conflicts is kept as a set: the order of the array is     *)
(*    the iteration order of object keys and no command depends on it      *)
(*    beyond which path is printed first.                                  *)
(*  - branchMeta, nextLane, lane and timestamps only position the drawing  *)
(*    of the graph and are left out.                                       *)
(***************************************************************************)
EXTENDS Integers, Sequences, FiniteSets, TLC

VARIABLES
  repo,          \* App.repo: the SimulatedRepo of the active lesson
  remoteStore,   \* App.remoteStore.byUrl: url -> remote repo
  activeLesson,  \* App.activeLesson.id
  nextHash,      \* the hash the next genHash() returns
  stepsLeft,     \* the command lines the learner still types in this session
  app            \* App: stepIndex, checkpoints, state.lessons, state.badges

vars == <<repo, remoteStore, activeLesson, nextHash, stepsLeft, app>>

-----------------------------------------------------------------------------
(* Bounds of the model *)

\* The learner's commands create at most MaxCommits commits in a lesson.
MaxCommits == 3

\* `git stash` is not issued once the stack holds this many entries.
MaxStash == 2

\* A session is at most MaxSteps command lines long.
MaxSteps == 4

\* A merging session is at most MergeSteps command lines long.
MergeSteps == 9

\* A stashing session is at most StashSteps command lines long.
StashSteps == 6

-----------------------------------------------------------------------------
(* Plain data helpers *)

Null == [null |-> TRUE]

EmptyMap == [k \in {} |-> << >>]

Has(m, k) == k \in DOMAIN m

Put(m, k, v) == [x \in DOMAIN m \cup {k} |-> IF x = k THEN v ELSE m[x]]

Del(m, k) == [x \in DOMAIN m \ {k} |-> m[x]]

Range(s) == {s[i] : i \in DOMAIN s}

\* Append to `order` the members of `more` that `have` does not hold, in order.
RECURSIVE AppendMissing(_, _, _)
AppendMissing(order, more, have) ==
  IF more = << >> THEN order
  ELSE IF Head(more) \in have
       THEN AppendMissing(order, Tail(more), have)
       ELSE AppendMissing(Append(order, Head(more)), Tail(more), have \cup {Head(more)})

\* The result record of a command: {ok, exitCode, stdout, stderr}; msg names
\* the first line printed.
Ok(msg) == [ok |-> TRUE, exitCode |-> 0, msg |-> msg]

Fail(msg) == [ok |-> FALSE, exitCode |-> 1, msg |-> msg]

\* `throw new Error(msg)`: the call returns no result record.
Threw(msg) == [threw |-> TRUE, msg |-> msg]

\* The digits of a hash: two digits in base HashBase, over genHash's alphabet.
HashBase == 3

alphabet == <<"0", "1", "2", "3", "4", "5", "6", "7", "8", "9", "a", "b", "c", "d", "e", "f">>

HashStr(h) == <<alphabet[(h \div HashBase) + 1], alphabet[(h % HashBase) + 1]>>

IsPrefix(p, s) == Len(p) <= Len(s) /\ \A i \in 1..Len(p) : p[i] = s[i]

-----------------------------------------------------------------------------
(* Paths, texts, names *)

README == "/README.md"

CONFIG == "/config.txt"

CONTRIBUTING == "/CONTRIBUTING.md"

TIPS == "/docs/tips.txt"

NOTES == "/NOTES.md"

\* dirname over the paths of the model.
dirname(path) == IF path = TIPS THEN "/docs" ELSE "/"

seedRemoteUrl == "https://example.com/acme/widgets.git"

OtherUrl == "https://example.com/other.git"

\* The token splitArgs makes of a quoted argument that holds only spaces.
BlankUrl == "   "

\* String(url || "").trim() over the urls of the model.
trim(url) == IF url = BlankUrl THEN "" ELSE url

\* The temporary branch name gitPull builds: `__remote_${remote}/${branch}`.
TmpName(remoteName, branchName) ==
  CASE remoteName = "origin" /\ branchName = "main" -> "__remote_origin/main"
    [] remoteName = "origin" /\ branchName = "feat" -> "__remote_origin/feat"
    [] remoteName = "origin" /\ branchName = "feature/theme" -> "__remote_origin/feature/theme"
    [] OTHER -> "__remote_other"

MergeMessage(theirBranch) == <<"Merge branch '", theirBranch, "'">>

RevertMessage(message) == <<"Revert \"">> \o message \o <<"\"">>

\* A conflict buffer with the two sides exchanged.
ConflictBufferTheirsFirst(oursText, theirsText, theirBranch) ==
  <<"<<<<<<< HEAD">> \o theirsText \o <<"=======">> \o oursText \o <<">>>>>>> ", theirBranch>>

ConflictBuffer(oursText, theirsText, theirBranch) ==
  <<"<<<<<<< HEAD">> \o oursText \o <<"=======">> \o theirsText \o <<">>>>>>> ", theirBranch>>

-----------------------------------------------------------------------------
(* RemoteStore *)

createEmptyRemote(url) ==
  [url |-> url, commits |-> EmptyMap, commitOrder |-> << >>, branches |-> [b \in {"main"} |-> 0]]

\* ensureRepo throws when nothing is left of the url after trim().
ensureRepoThrows(url) == trim(url) = ""

\* ensureRepo when it does not throw: the store afterwards.
ensureRepo(store, url) ==
  IF Has(store, trim(url)) THEN store ELSE Put(store, trim(url), createEmptyRemote(trim(url)))

-----------------------------------------------------------------------------
(* SimulatedRepo: construction and readers *)

NoEvent == [type |-> "none"]

NewRepo ==
  [initialized |-> FALSE,
   cwd |-> "/",
   directories |-> {"/"},
   workingFiles |-> EmptyMap,
   stagedFiles |-> EmptyMap,
   commits |-> EmptyMap,
   commitOrder |-> << >>,
   branches |-> [b \in {"main"} |-> 0],
   currentBranch |-> "main",
   mergeState |-> Null,
   remotes |-> EmptyMap,
   upstreams |-> EmptyMap,
   stash |-> << >>,
   lastEvent |-> NoEvent]

\* A reset() that forgets to empty the stash.
resetKeepingStash(r) == [NewRepo EXCEPT !.stash = r.stash]

\* SimulatedRepo.reset(): every field back to its constructed value.
reset(r) == NewRepo

\* The fields serialize() writes: every field of the model but lastEvent.
\* JSON text keeps strings, numbers, null, arrays and objects as they are.
serialize(r) == [f \in DOMAIN r \ {"lastEvent"} |-> r[f]]

\* Object.keys(branches)[0]: main is the key every branches object starts
\* with (reset, createEmptyRemote, seedRemotes) and it is never deleted.
firstBranch(branches) ==
  IF Has(branches, "main") THEN "main" ELSE CHOOSE b \in DOMAIN branches : TRUE

\* SimulatedRepo.deserialize(obj): a new repo, the fields of obj, then the
\* required defaults.
deserialize(obj) ==
  LET loaded == [f \in DOMAIN NewRepo |-> IF f \in DOMAIN obj THEN obj[f] ELSE NewRepo[f]]
      rooted == [loaded EXCEPT !.branches = IF Has(@, "main") THEN @ ELSE Put(@, "main", 0),
                               !.directories = @ \cup {"/"}]
  IN  [rooted EXCEPT !.currentBranch =
         IF Has(rooted.branches, @) /\ rooted.branches[@] # 0 THEN @
         ELSE firstBranch(rooted.branches)]

head(r) == IF Has(r.branches, r.currentBranch) THEN r.branches[r.currentBranch] ELSE 0

setHead(r, hash) == [r EXCEPT !.branches = Put(r.branches, r.currentBranch, hash)]

getSnapshot(r, hash) ==
  IF hash = 0 THEN EmptyMap
  ELSE IF Has(r.commits, hash) THEN r.commits[hash].files ELSE EmptyMap

getHeadSnapshot(r) == getSnapshot(r, head(r))

listAllPaths(r) ==
  DOMAIN r.workingFiles \cup DOMAIN getHeadSnapshot(r) \cup DOMAIN r.stagedFiles

conflictsOf(r) == IF r.mergeState = Null THEN {} ELSE r.mergeState.conflicts

\* getStatus, one path of the loop: the codes pushed to each list.
statusStaged(r, path) ==
  LET headSnap == getHeadSnapshot(r)
      headHas == Has(headSnap, path)
      stageHas == Has(r.stagedFiles, path)
      indexHas == stageHas /\ ~r.stagedFiles[path].del
  IN  IF path \in conflictsOf(r) \/ ~stageHas THEN {}
      ELSE IF ~headHas /\ indexHas THEN {"A"}
      ELSE IF headHas /\ ~indexHas THEN {"D"}
      ELSE IF headHas /\ r.stagedFiles[path].content # headSnap[path] THEN {"M"}
      ELSE {}

statusUntracked(r, path) ==
  LET headHas == Has(getHeadSnapshot(r), path)
      workHas == Has(r.workingFiles, path)
  IN  IF path \in conflictsOf(r) THEN {}
      ELSE IF ~headHas /\ workHas THEN {"A"} ELSE {}

statusUnstaged(r, path) ==
  LET headSnap == getHeadSnapshot(r)
      headHas == Has(headSnap, path)
      workHas == Has(r.workingFiles, path)
      stageHas == Has(r.stagedFiles, path)
      \* indexBaseline: the staged content, undefined for a staged deletion,
      \* the HEAD content when the path is not staged.
      baselineHas == IF stageHas THEN ~r.stagedFiles[path].del ELSE headHas
      baseline == IF stageHas THEN r.stagedFiles[path].content
                  ELSE IF headHas THEN headSnap[path] ELSE << >>
  IN  IF path \in conflictsOf(r) THEN {}
      ELSE IF ~headHas /\ workHas THEN {}
      ELSE IF headHas /\ ~workHas THEN (IF ~stageHas THEN {"D"} ELSE {})
      ELSE IF headHas /\ workHas /\ r.workingFiles[path] # headSnap[path]
           THEN (IF ~baselineHas \/ r.workingFiles[path] # baseline THEN {"M"} ELSE {})
      ELSE {}

getStatus(r) ==
  LET staged == {p \in listAllPaths(r) : statusStaged(r, p) # {}}
      unstaged == {p \in listAllPaths(r) : statusUnstaged(r, p) # {}}
      untracked == {p \in listAllPaths(r) : statusUntracked(r, p) # {}}
  IN  [branch |-> r.currentBranch,
       initialized |-> r.initialized,
       hasCommits |-> Len(r.commitOrder) > 0,
       staged |-> staged,
       unstaged |-> unstaged,
       untracked |-> untracked,
       conflicts |-> conflictsOf(r),
       isDirty |-> \/ DOMAIN r.stagedFiles # {}
                   \/ staged # {}
                   \/ unstaged # {}
                   \/ untracked # {}
                   \/ (r.mergeState # Null /\ r.mergeState.conflicts # {})]

\* The commits reached from `frontier` by following parents (the stack loop
\* of isAncestor, run to exhaustion).
RECURSIVE reach(_, _, _)
reach(commits, frontier, seen) ==
  LET new == (frontier \ seen) \ {0}
  IN  IF new = {} THEN seen
      ELSE reach(commits,
                 UNION {Range(commits[c].parents) : c \in new \cap DOMAIN commits},
                 seen \cup new)

\* An ancestry test that looks no further than the parents.
isParentOrSelf(r, ancestorHash, descendantHash) ==
  /\ ancestorHash # 0
  /\ Has(r.commits, descendantHash)
  /\ ancestorHash \in {descendantHash} \cup Range(r.commits[descendantHash].parents)

isAncestor(r, ancestorHash, descendantHash) ==
  IF ancestorHash = 0 \/ descendantHash = 0 THEN FALSE
  ELSE IF ancestorHash = descendantHash THEN TRUE
  ELSE ancestorHash \in reach(r.commits, {descendantHash}, {})

parentEntries(commits, hash, d) ==
  IF Has(commits, hash)
  THEN [i \in 1..Len(commits[hash].parents) |-> [hash |-> commits[hash].parents[i], d |-> d + 1]]
  ELSE << >>

\* First loop of findCommonAncestor: breadth-first distances from a.
RECURSIVE bfsDist(_, _, _)
bfsDist(commits, queue, dist) ==
  IF queue = << >> THEN dist
  ELSE LET e == Head(queue)
       IN  IF e.hash = 0 \/ Has(dist, e.hash)
           THEN bfsDist(commits, Tail(queue), dist)
           ELSE bfsDist(commits, Tail(queue) \o parentEntries(commits, e.hash, e.d),
                        Put(dist, e.hash, e.d))

\* A second loop that keeps the last common commit it meets.
RECURSIVE bfsBestLast(_, _, _, _, _, _)
bfsBestLast(commits, queue, seen2, dist, best, bestD) ==
  IF queue = << >> THEN best
  ELSE LET e == Head(queue)
       IN  IF e.hash = 0 \/ e.hash \in seen2
           THEN bfsBestLast(commits, Tail(queue), seen2, dist, best, bestD)
           ELSE bfsBestLast(commits, Tail(queue) \o parentEntries(commits, e.hash, e.d),
                            seen2 \cup {e.hash}, dist,
                            IF Has(dist, e.hash) THEN e.hash ELSE best, bestD)

\* Second loop: breadth-first from b, keeping the first strictly smaller
\* total.  best = 0 stands for null with bestD = Infinity.
RECURSIVE bfsBest(_, _, _, _, _, _)
bfsBest(commits, queue, seen2, dist, best, bestD) ==
  IF queue = << >> THEN best
  ELSE LET e == Head(queue)
       IN  IF e.hash = 0 \/ e.hash \in seen2
           THEN bfsBest(commits, Tail(queue), seen2, dist, best, bestD)
           ELSE LET better == Has(dist, e.hash) /\ (best = 0 \/ dist[e.hash] + e.d < bestD)
                IN  bfsBest(commits, Tail(queue) \o parentEntries(commits, e.hash, e.d),
                            seen2 \cup {e.hash}, dist,
                            IF better THEN e.hash ELSE best,
                            IF better THEN dist[e.hash] + e.d ELSE bestD)

findCommonAncestor(r, a, b) ==
  IF a = 0 \/ b = 0 THEN 0
  ELSE IF a = b THEN a
  ELSE bfsBest(r.commits, <<[hash |-> b, d |-> 0]>>, {},
               bfsDist(r.commits, <<[hash |-> a, d |-> 0]>>, EmptyMap), 0, 0)

ensureInitialized(r) == r.initialized

NotARepo == Fail("fatal: not a git repository (simulated)")

-----------------------------------------------------------------------------
(* Shell commands.  Every path argument of the model is absolute and        *)
(* normalized, so joinPath(cwd, arg) is the argument itself.                *)

Event(type) == [type |-> type]

\* echo "text" > path
shellWrite(r, path, text) ==
  [repo |-> [r EXCEPT !.directories = @ \cup {dirname(path)},
                      !.workingFiles = Put(@, path, text),
                      !.lastEvent = Event("fs_write")],
   res |-> Ok("")]

\* rm path
shellRm(r, path) ==
  IF ~Has(r.workingFiles, path)
  THEN [repo |-> r, res |-> Fail("rm: cannot remove: No such file")]
  ELSE [repo |-> [r EXCEPT !.workingFiles = Del(@, path), !.lastEvent = Event("fs_rm")],
        res |-> Ok("")]

-----------------------------------------------------------------------------
(* Git commands *)

gitInit(r) ==
  [repo |-> [r EXCEPT !.initialized = TRUE,
                      !.branches = IF Has(@, "main") THEN @ ELSE Put(@, "main", 0),
                      !.lastEvent = Event("git_init")],
   res |-> Ok(IF r.initialized THEN "Reinitialized existing Git repository (simulated)."
              ELSE "Initialized empty Git repository (simulated).")]

Staged(content) == [del |-> FALSE, content |-> content]

StagedDeletion == [del |-> TRUE, content |-> << >>]

\* The targets of `git add`: everything for ".", "-A" or "--all", else the
\* paths given.
addTargets(r, args) ==
  IF Range(args) \cap {".", "-A", "--all"} # {}
  THEN DOMAIN r.workingFiles \cup DOMAIN getHeadSnapshot(r)
  ELSE Range(args)

\* The loop of gitAdd over the targets and the update of the conflict list.
addStage(r, targets) ==
  LET headSnap == getHeadSnapshot(r)
      inWork == {p \in targets : Has(r.workingFiles, p)}
      gone == {p \in targets \ inWork : Has(headSnap, p)}
  IN  [r EXCEPT
         !.stagedFiles = [p \in DOMAIN @ \cup inWork \cup gone |->
                            IF p \in inWork THEN Staged(r.workingFiles[p])
                            ELSE IF p \in gone THEN StagedDeletion
                            ELSE @[p]],
         !.mergeState = IF @ = Null THEN Null ELSE [@ EXCEPT !.conflicts = @ \ inWork]]

\* The targets that match neither a working file nor a HEAD path.
addErrors(r, targets) ==
  {p \in targets : ~Has(r.workingFiles, p) /\ ~Has(getHeadSnapshot(r), p)}

gitAdd(r, args) ==
  IF ~ensureInitialized(r) THEN [repo |-> r, res |-> NotARepo]
  ELSE IF args = << >> THEN [repo |-> r, res |-> Fail("fatal: pathspec is required")]
  ELSE LET targets == addTargets(r, args)
           after == addStage(r, targets)
       IN  IF addErrors(r, targets) # {}
           THEN [repo |-> after, res |-> Fail("fatal: pathspec did not match any files")]
           ELSE [repo |-> [after EXCEPT !.lastEvent = Event("git_add")], res |-> Ok("")]

\* parents of the commit gitCommit creates
commitParents(r) ==
  (IF head(r) # 0 THEN <<head(r)>> ELSE << >>)
    \o (IF r.mergeState # Null /\ r.mergeState.theirHash # 0
        THEN <<r.mergeState.theirHash>> ELSE << >>)

\* An overlay of the index that writes contents and skips the deletions.
applyIndexNoDeletions(files, stagedFiles) ==
  [p \in DOMAIN files \cup {q \in DOMAIN stagedFiles : ~stagedFiles[q].del} |->
     IF Has(stagedFiles, p) /\ ~stagedFiles[p].del THEN stagedFiles[p].content ELSE files[p]]

\* `files` with every index entry applied: content written, deletion removed.
applyIndex(files, stagedFiles) ==
  [p \in (DOMAIN files \cup {q \in DOMAIN stagedFiles : ~stagedFiles[q].del})
           \ {q \in DOMAIN stagedFiles : stagedFiles[q].del} |->
     IF Has(stagedFiles, p) THEN stagedFiles[p].content ELSE files[p]]

\* A check for unmerged files that never finds any.
unmergedNever(r) == FALSE

\* The merge in progress still lists conflicting paths.
unmerged(r) == r.mergeState # Null /\ r.mergeState.conflicts # {}

\* A commit that empties the index and leaves the merge state.
commitClearIndexOnly(r) == [r EXCEPT !.stagedFiles = EmptyMap]

\* The end of gitCommit: index and merge state are cleared.
commitClear(r) == [r EXCEPT !.stagedFiles = EmptyMap, !.mergeState = Null]

\* The commit record stored under `hash`.
newCommit(r, hash, message) ==
  [hash |-> hash,
   message |-> message,
   parents |-> commitParents(r),
   files |-> applyIndex(getHeadSnapshot(r), r.stagedFiles),
   branch |-> r.currentBranch]

\* gitCommit(["-m", message]); message = << >> when none is given; `hash`
\* is what genHash returns.
gitCommit(r, message, hash) ==
  IF ~ensureInitialized(r) THEN [repo |-> r, res |-> NotARepo]
  ELSE IF ~(getStatus(r).staged # {} \/ DOMAIN r.stagedFiles # {})
  THEN [repo |-> r, res |-> Fail("nothing to commit (no staged changes)")]
  ELSE IF unmerged(r)
  THEN [repo |-> r, res |-> Fail("error: Committing is not possible because you have unmerged files.")]
  ELSE LET msg == IF message # << >> THEN message
                  ELSE IF r.mergeState # Null THEN MergeMessage(r.mergeState.theirBranch)
                  ELSE <<"Commit">>
           stored == [r EXCEPT !.commits = Put(@, hash, newCommit(r, hash, msg)),
                               !.commitOrder = Append(@, hash)]
           moved == setHead(stored, hash)
           synced == [moved EXCEPT !.workingFiles = applyIndex(@, r.stagedFiles)]
       IN  [repo |-> [commitClear(synced) EXCEPT !.lastEvent = Event("git_commit")],
            res |-> Ok("commit")]

\* git branch <name>  (name = "" lists the branches)
gitBranch(r, name) ==
  IF ~ensureInitialized(r) THEN [repo |-> r, res |-> NotARepo]
  ELSE IF name = "" THEN [repo |-> r, res |-> Ok("branches")]
  ELSE IF Has(r.branches, name)
  THEN [repo |-> r, res |-> Fail("fatal: A branch named already exists.")]
  ELSE [repo |-> [r EXCEPT !.branches = Put(@, name, head(r)),
                           !.lastEvent = Event("git_branch_create")],
        res |-> Ok("")]

\* A checkout -b that switches to the name without creating the branch.
checkoutNewUnregistered(r, name) ==
  [r EXCEPT !.currentBranch = name,
            !.workingFiles = EmptyMap,
            !.lastEvent = Event("git_checkout_new")]

\* git checkout -b <name>, past the dirty check
checkoutNew(r, name) ==
  LET created == [r EXCEPT !.branches = Put(@, name, head(r))]
      switched == [created EXCEPT !.currentBranch = name]
  IN  [switched EXCEPT !.workingFiles = getHeadSnapshot(switched),
                       !.lastEvent = Event("git_checkout_new")]

\* git checkout <name>, past the dirty check
checkoutExisting(r, name) ==
  LET switched == [r EXCEPT !.currentBranch = name]
  IN  [switched EXCEPT !.workingFiles = getHeadSnapshot(switched),
                       !.stagedFiles = EmptyMap,
                       !.mergeState = Null,
                       !.lastEvent = Event("git_checkout")]

\* gitCheckout(args): args is <<name>> or <<"-b", name>> (or shorter)
gitCheckout(r, args) ==
  IF ~ensureInitialized(r) THEN [repo |-> r, res |-> NotARepo]
  ELSE IF getStatus(r).isDirty
  THEN [repo |-> r, res |-> Fail("error: Your local changes would be overwritten by checkout (simulated).")]
  ELSE IF args = << >> THEN [repo |-> r, res |-> Fail("fatal: branch name required")]
  ELSE IF args[1] = "-b"
  THEN IF Len(args) < 2 THEN [repo |-> r, res |-> Fail("fatal: -b requires a branch name")]
       ELSE IF Has(r.branches, args[2])
       THEN [repo |-> r, res |-> Fail("fatal: A branch named already exists.")]
       ELSE [repo |-> checkoutNew(r, args[2]), res |-> Ok("Switched to a new branch")]
  ELSE IF ~Has(r.branches, args[1])
  THEN [repo |-> r, res |-> Fail("error: pathspec did not match any branch")]
  ELSE [repo |-> checkoutExisting(r, args[1]), res |-> Ok("Switched to branch")]

\* An optional content: << >> for undefined, <<c>> for content c.
Opt(files, path) == IF Has(files, path) THEN <<files[path]>> ELSE << >>

\* o ?? ""
OrEmpty(o) == IF o = << >> THEN << >> ELSE o[1]

\* A merge rule that keeps ours wherever there is no conflict.
mergeEntryKeepOurs(b, o, t, theirBranch) ==
  IF o # t /\ o # b /\ t # b
  THEN <<ConflictBuffer(IF o = << >> THEN << >> ELSE o[1], IF t = << >> THEN << >> ELSE t[1],
                        theirBranch)>>
  ELSE o

\* The three-way rule for one path: the optional merged content.
mergeEntry(b, o, t, theirBranch) ==
  IF o = t THEN o
  ELSE IF o = b THEN t
  ELSE IF t = b THEN o
  ELSE <<ConflictBuffer(OrEmpty(o), OrEmpty(t), theirBranch)>>

isConflict(b, o, t) == o # t /\ o # b /\ t # b

mergePaths(base, oursSnap, theirsSnap) ==
  DOMAIN base \cup DOMAIN oursSnap \cup DOMAIN theirsSnap

mergedTree(base, oursSnap, theirsSnap, theirBranch) ==
  LET entry(p) == mergeEntry(Opt(base, p), Opt(oursSnap, p), Opt(theirsSnap, p), theirBranch)
  IN  [p \in {q \in mergePaths(base, oursSnap, theirsSnap) : entry(q) # << >>} |-> entry(p)[1]]

mergeConflicts(base, oursSnap, theirsSnap) ==
  {p \in mergePaths(base, oursSnap, theirsSnap) :
     isConflict(Opt(base, p), Opt(oursSnap, p), Opt(theirsSnap, p))}

\* Fast-forward of gitMerge and gitPull: move HEAD, sync the working tree.
\* A fast-forward that moves the branch and leaves the working tree.
fastForwardHeadOnly(r, theirs, event) ==
  [setHead(r, theirs) EXCEPT !.lastEvent = Event(event)]

fastForward(r, theirs, event) ==
  LET moved == setHead(r, theirs)
  IN  [moved EXCEPT !.workingFiles = getHeadSnapshot(moved), !.lastEvent = Event(event)]

\* The index gitMerge builds before its commit: the merged tree, and a
\* deletion for every path of ours that the merge removed.
mergeIndex(workingFiles, oursSnap) ==
  [p \in DOMAIN workingFiles \cup DOMAIN oursSnap |->
     IF Has(workingFiles, p) THEN Staged(workingFiles[p]) ELSE StagedDeletion]

\* gitMerge from `const baseHash = ...` on: the three-way merge.
threeWayMerge(r, theirBranch, ours, theirs, hash) ==
  LET base == getSnapshot(r, findCommonAncestor(r, ours, theirs))
      oursSnap == getSnapshot(r, ours)
      theirsSnap == getSnapshot(r, theirs)
      conflicts == mergeConflicts(base, oursSnap, theirsSnap)
      written == [r EXCEPT !.workingFiles = mergedTree(base, oursSnap, theirsSnap, theirBranch),
                           !.stagedFiles = EmptyMap]
      pending == [written EXCEPT
                    !.mergeState = [theirBranch |-> theirBranch, theirHash |-> theirs,
                                    conflicts |-> conflicts]]
      staged == [pending EXCEPT !.stagedFiles = mergeIndex(written.workingFiles, oursSnap)]
      done == gitCommit(staged, MergeMessage(theirBranch), hash)
  IN  IF conflicts # {}
      THEN [repo |-> [pending EXCEPT !.lastEvent = Event("git_merge_conflict")],
            res |-> Fail("Auto-merging (simulated)...")]
      ELSE [repo |-> [done.repo EXCEPT !.lastEvent = Event("git_merge")], res |-> done.res]

\* gitMerge([theirBranch]); theirBranch = "" when no argument is given
gitMerge(r, theirBranch, hash) ==
  IF ~ensureInitialized(r) THEN [repo |-> r, res |-> NotARepo]
  ELSE IF getStatus(r).isDirty
  THEN [repo |-> r, res |-> Fail("error: cannot merge because you have local changes (simulated).")]
  ELSE IF theirBranch = "" THEN [repo |-> r, res |-> Fail("fatal: branch name required")]
  ELSE IF ~Has(r.branches, theirBranch) THEN [repo |-> r, res |-> Fail("fatal: branch not found")]
  ELSE LET ours == head(r)
           theirs == r.branches[theirBranch]
       IN  IF theirs = 0 THEN [repo |-> r, res |-> Ok("Already up to date.")]
           ELSE IF ours = 0
           THEN [repo |-> fastForward(r, theirs, "git_merge_ff"), res |-> Ok("Fast-forward (simulated).")]
           ELSE IF isAncestor(r, ours, theirs)
           THEN [repo |-> fastForward(r, theirs, "git_merge_ff"), res |-> Ok("Fast-forward (simulated).")]
           ELSE IF isAncestor(r, theirs, ours) THEN [repo |-> r, res |-> Ok("Already up to date.")]
           ELSE threeWayMerge(r, theirBranch, ours, theirs, hash)

\* git remote add <name> <url>
gitRemoteAdd(r, store, name, url) ==
  IF ~ensureInitialized(r) THEN [repo |-> r, store |-> store, res |-> NotARepo]
  ELSE IF name = "" \/ url = ""
  THEN [repo |-> r, store |-> store, res |-> Fail("usage: git remote add <name> <url>")]
  ELSE IF Has(r.remotes, name)
  THEN [repo |-> r, store |-> store, res |-> Fail("fatal: remote already exists")]
  ELSE IF ensureRepoThrows(url)
  THEN [repo |-> r, store |-> store, res |-> Threw("Remote URL is required.")]
  ELSE [repo |-> [r EXCEPT !.remotes = Put(@, name, [url |-> url]),
                           !.lastEvent = Event("git_remote_add")],
        store |-> ensureRepo(store, url),
        res |-> Ok("")]

\* args[i] || "" after the -u / --set-upstream flags are taken out
Cleaned(args) == SelectSeq(args, LAMBDA a : a \notin {"-u", "--set-upstream"})

ArgOr(args, i, default) == IF Len(args) >= i /\ args[i] # "" THEN args[i] ELSE default

\* A push that moves the remote branch and copies no commit.
pushIntoRefOnly(remoteRepo, r, branchName) ==
  [remoteRepo EXCEPT !.branches = Put(@, branchName, r.branches[branchName])]

\* A push that appends the whole local commitOrder to the remote's.
pushIntoListingAll(remoteRepo, r, branchName) ==
  [remoteRepo EXCEPT
     !.commits = [h \in DOMAIN @ \cup Range(r.commitOrder) |->
                    IF Has(@, h) THEN @[h] ELSE r.commits[h]],
     !.commitOrder = @ \o r.commitOrder,
     !.branches = Put(@, branchName, r.branches[branchName])]

\* The remote repo after a push of the local commits and of branchName.
pushInto(remoteRepo, r, branchName) ==
  [remoteRepo EXCEPT
     !.commits = [h \in DOMAIN @ \cup Range(r.commitOrder) |->
                    IF Has(@, h) THEN @[h] ELSE r.commits[h]],
     !.commitOrder = AppendMissing(@, r.commitOrder, Range(@)),
     !.branches = Put(@, branchName, r.branches[branchName])]

\* The remote and the branch a push names, with gitPush's defaults.
pushRemoteName(r, args) ==
  ArgOr(Cleaned(args), 1, IF Has(r.upstreams, r.currentBranch)
                          THEN r.upstreams[r.currentBranch].remote ELSE "origin")

pushBranchName(r, args) == ArgOr(Cleaned(args), 2, r.currentBranch)

gitPush(r, store, args) ==
  IF ~ensureInitialized(r) THEN [repo |-> r, store |-> store, res |-> NotARepo]
  ELSE LET setUpstream == Range(args) \cap {"-u", "--set-upstream"} # {}
           remoteName == pushRemoteName(r, args)
           branchName == pushBranchName(r, args)
       IN  IF ~Has(r.remotes, remoteName)
           THEN [repo |-> r, store |-> store,
                 res |-> Fail("fatal: does not appear to be a git remote")]
           ELSE LET url == r.remotes[remoteName].url
                    ensured == ensureRepo(store, url)
                IN  IF ~Has(r.branches, branchName) \/ r.branches[branchName] = 0
                    THEN [repo |-> r, store |-> ensured,
                          res |-> Fail("error: src refspec does not match any")]
                    ELSE [repo |-> [r EXCEPT
                                      !.upstreams = IF setUpstream
                                                    THEN Put(@, branchName,
                                                             [remote |-> remoteName, branch |-> branchName])
                                                    ELSE @,
                                      !.lastEvent = Event("git_push")],
                          store |-> [ensured EXCEPT ![url] = pushInto(@, r, branchName)],
                          res |-> Ok("To url")]

\* gitPull's import: the remote's commits that are missing locally, in the
\* remote's order.
RECURSIVE pullImport(_, _, _)
pullImport(r, remoteRepo, order) ==
  IF order = << >> THEN r
  ELSE LET hash == Head(order)
       IN  IF ~Has(r.commits, hash) /\ Has(remoteRepo.commits, hash)
           THEN pullImport([r EXCEPT !.commits = Put(@, hash, remoteRepo.commits[hash]),
                                     !.commitOrder = Append(@, hash)],
                           remoteRepo, Tail(order))
           ELSE pullImport(r, remoteRepo, Tail(order))

\* A pull that brings over only the newest commit of the remote, without
\* its history.
pullImportedNewest(r, remoteRepo) ==
  pullImport(r, remoteRepo,
             SubSeq(remoteRepo.commitOrder, Len(remoteRepo.commitOrder), Len(remoteRepo.commitOrder)))

\* "Bring missing commits into local."
pullImported(r, remoteRepo) == pullImport(r, remoteRepo, remoteRepo.commitOrder)

\* gitPull's diverged case: merge through a temporary branch.
pullMerge(r, remoteName, branchName, theirs, hash) ==
  LET tmpName == TmpName(remoteName, branchName)
      merged == gitMerge([r EXCEPT !.branches = Put(@, tmpName, theirs)], tmpName, hash)
  IN  [repo |-> [merged.repo EXCEPT !.branches = Del(@, tmpName),
                                    !.lastEvent = Event("git_pull_merge")],
       res |-> merged.res]

\* gitPull(args): args is << >> or <<remote, branch>>
gitPull(r, store, args, hash) ==
  IF ~ensureInitialized(r) THEN [repo |-> r, res |-> NotARepo]
  ELSE IF getStatus(r).isDirty
  THEN [repo |-> r, res |-> Fail("error: cannot pull with local changes (simulated).")]
  ELSE LET up == Has(r.upstreams, r.currentBranch)
           remoteName == ArgOr(args, 1, IF up THEN r.upstreams[r.currentBranch].remote ELSE "origin")
           branchName == ArgOr(args, 2, IF up THEN r.upstreams[r.currentBranch].branch
                                        ELSE r.currentBranch)
       IN  IF ~Has(r.remotes, remoteName) THEN [repo |-> r, res |-> Fail("fatal: remote not found")]
           ELSE IF ~Has(store, r.remotes[remoteName].url)
           THEN [repo |-> r, res |-> Fail("fatal: remote URL not found")]
           ELSE LET remoteRepo == store[r.remotes[remoteName].url]
                    remoteHead == IF Has(remoteRepo.branches, branchName)
                                  THEN remoteRepo.branches[branchName] ELSE 0
                    imported == pullImported(r, remoteRepo)
                    ours == head(imported)
                IN  IF remoteHead = 0
                    THEN [repo |-> r, res |-> Fail("fatal: remote branch not found")]
                    ELSE IF ours = 0 \/ isAncestor(imported, ours, remoteHead)
                    THEN [repo |-> fastForward(imported, remoteHead, "git_pull_ff"),
                          res |-> Ok("Fast-forward (simulated).")]
                    ELSE IF isAncestor(imported, remoteHead, ours)
                    THEN [repo |-> imported, res |-> Ok("Already up to date.")]
                    ELSE pullMerge(imported, remoteName, branchName, remoteHead, hash)

\* A clone that takes the remote's branches and leaves its commits behind.
cloneCopyBranchesOnly(fresh, remoteRepo, url) ==
  [fresh EXCEPT
     !.initialized = TRUE,
     !.remotes = Put(@, "origin", [url |-> url]),
     !.upstreams = Put(@, "main", [remote |-> "origin", branch |-> "main"]),
     !.branches = remoteRepo.branches,
     !.currentBranch = "main"]

\* "Replace this repo with remote content": the fields gitClone sets on the
\* repo that reset() left.
cloneCopy(fresh, remoteRepo, url) ==
  [fresh EXCEPT
     !.initialized = TRUE,
     !.remotes = Put(@, "origin", [url |-> url]),
     !.upstreams = Put(@, "main", [remote |-> "origin", branch |-> "main"]),
     !.commits = remoteRepo.commits,
     !.commitOrder = remoteRepo.commitOrder,
     !.branches = remoteRepo.branches,
     !.currentBranch = "main"]

\* gitClone([url]); url = "" when no argument is given
gitClone(r, store, url) ==
  IF url = "" THEN [repo |-> r, store |-> store, res |-> Fail("usage: git clone <url>")]
  ELSE IF ensureRepoThrows(url)
  THEN [repo |-> r, store |-> store, res |-> Threw("Remote URL is required.")]
  ELSE LET ensured == ensureRepo(store, url)
           remoteRepo == ensured[trim(url)]
           copied == cloneCopy(reset(r), remoteRepo, url)
           files == getHeadSnapshot(copied)
       IN  [repo |-> [copied EXCEPT !.workingFiles = files,
                                    !.directories = @ \cup {dirname(p) : p \in DOMAIN files},
                                    !.lastEvent = Event("git_clone")],
            store |-> ensured,
            res |-> Ok("Cloning into...")]

stashEntry(r) ==
  [message |-> [branch |-> r.currentBranch, head |-> head(r)],
   workingFiles |-> r.workingFiles,
   stagedFiles |-> r.stagedFiles]

\* A stash that pushes its entry at the far end of the stack.
stashPushLast(r) ==
  [r EXCEPT !.stash = @ \o <<stashEntry(r)>>,
            !.workingFiles = getHeadSnapshot(r),
            !.stagedFiles = EmptyMap,
            !.mergeState = Null,
            !.lastEvent = Event("git_stash")]

stashPush(r) ==
  [r EXCEPT !.stash = <<stashEntry(r)>> \o @,
            !.workingFiles = getHeadSnapshot(r),
            !.stagedFiles = EmptyMap,
            !.mergeState = Null,
            !.lastEvent = Event("git_stash")]

stashPop(r) ==
  [r EXCEPT !.stash = Tail(@),
            !.workingFiles = Head(r.stash).workingFiles,
            !.stagedFiles = Head(r.stash).stagedFiles,
            !.mergeState = Null,
            !.lastEvent = Event("git_stash_pop")]

\* gitStash(args): args is << >> or <<"pop">>
gitStash(r, args) ==
  IF ~ensureInitialized(r) THEN [repo |-> r, res |-> NotARepo]
  ELSE IF args # << >> /\ args[1] = "pop"
  THEN IF r.stash = << >> THEN [repo |-> r, res |-> Fail("No stash entries found.")]
       ELSE [repo |-> stashPop(r), res |-> Ok("Applied stash (simulated).")]
  ELSE IF ~getStatus(r).isDirty THEN [repo |-> r, res |-> Fail("No local changes to save.")]
  ELSE [repo |-> stashPush(r), res |-> Ok("Saved working directory and index state")]

\* A lookup that settles for any commit the prefix matches.
resolveHashPrefixAny(r, prefix) ==
  LET matches == {h \in DOMAIN r.commits : IsPrefix(prefix, HashStr(h))}
  IN  IF prefix = << >> \/ matches = {} THEN 0 ELSE CHOOSE h \in matches : TRUE

\* A prefix is a sequence of digits (one-character strings).
resolveHashPrefix(r, prefix) ==
  LET matches == {h \in DOMAIN r.commits : IsPrefix(prefix, HashStr(h))}
  IN  IF prefix = << >> THEN 0
      ELSE IF Cardinality(matches) = 1 THEN CHOOSE h \in matches : TRUE
      ELSE 0

\* A reset that takes every target for HEAD.
resetTargetHead(r, target) == head(r)

\* The hash `reset --hard <target>` moves HEAD to; target is <<"HEAD">>,
\* <<"HEAD~1">> or a prefix; -1 when the prefix does not resolve.
resetTarget(r, target) ==
  IF target = <<"HEAD">> THEN head(r)
  ELSE IF target = <<"HEAD~1">>
  THEN (IF Has(r.commits, head(r)) /\ r.commits[head(r)].parents # << >>
        THEN r.commits[head(r)].parents[1] ELSE 0)
  ELSE IF resolveHashPrefix(r, target) = 0 THEN -1 ELSE resolveHashPrefix(r, target)

\* A reset that throws away the commit it moves off.
resetHardForgetting(r, targetHash) ==
  LET left == IF head(r) = targetHash THEN {} ELSE {head(r)} \cap DOMAIN r.commits
      moved == setHead(r, targetHash)
  IN  [moved EXCEPT !.commits = [h \in DOMAIN @ \ left |-> @[h]],
                    !.commitOrder = SelectSeq(@, LAMBDA h : h \notin left),
                    !.workingFiles = getSnapshot(r, targetHash),
                    !.stagedFiles = EmptyMap,
                    !.mergeState = Null,
                    !.lastEvent = Event("git_reset_hard")]

resetHard(r, targetHash) ==
  LET moved == setHead(r, targetHash)
  IN  [moved EXCEPT !.workingFiles = getHeadSnapshot(moved),
                    !.stagedFiles = EmptyMap,
                    !.mergeState = Null,
                    !.lastEvent = Event("git_reset_hard")]

\* gitReset(args): args is <<flag>> or <<flag, target>>, target a sequence
gitReset(r, flag, target) ==
  IF ~ensureInitialized(r) THEN [repo |-> r, res |-> NotARepo]
  ELSE IF flag # "--hard"
  THEN [repo |-> r, res |-> Fail("Only '--hard' is supported in this tutorial.")]
  ELSE LET targetHash == resetTarget(r, IF target = << >> THEN <<"HEAD">> ELSE target)
       IN  IF targetHash = -1 THEN [repo |-> r, res |-> Fail("fatal: ambiguous argument")]
           ELSE [repo |-> resetHard(r, targetHash), res |-> Ok("HEAD is now at")]

\* The files gitRevert computes: HEAD's snapshot with the inverse patch of
\* `commit` against its first parent applied.
revertedFiles(r, commit) ==
  LET parentHash == IF commit.parents # << >> THEN commit.parents[1] ELSE 0
      parentFiles == getSnapshot(r, parentHash)
      commitFiles == commit.files
      headFiles == getHeadSnapshot(r)
      changed == {p \in DOMAIN parentFiles \cup DOMAIN commitFiles :
                    Opt(parentFiles, p) # Opt(commitFiles, p)}
  IN  [p \in (DOMAIN headFiles \ changed) \cup (changed \cap DOMAIN parentFiles) |->
         IF p \in changed THEN parentFiles[p] ELSE headFiles[p]]

\* The index gitRevert builds: the reverted files, and a deletion for every
\* HEAD path they no longer hold.
revertIndex(r, headFiles) ==
  [p \in DOMAIN headFiles \cup DOMAIN getHeadSnapshot(r) |->
     IF Has(headFiles, p) THEN Staged(headFiles[p]) ELSE StagedDeletion]

\* gitRevert([hashArg]); hashArg = << >> when no argument is given
gitRevert(r, hashArg, hash) ==
  IF ~ensureInitialized(r) THEN [repo |-> r, res |-> NotARepo]
  ELSE IF hashArg = << >> THEN [repo |-> r, res |-> Fail("usage: git revert <hash>")]
  ELSE LET exact == {h \in DOMAIN r.commits : HashStr(h) = hashArg}
           full == IF resolveHashPrefix(r, hashArg) # 0 THEN resolveHashPrefix(r, hashArg)
                   ELSE IF exact # {} THEN CHOOSE h \in exact : TRUE ELSE 0
       IN  IF full = 0 THEN [repo |-> r, res |-> Fail("fatal: bad revision")]
           ELSE LET commit == r.commits[full]
                    staged == [r EXCEPT !.stagedFiles = revertIndex(r, revertedFiles(r, commit))]
                    done == gitCommit(staged, RevertMessage(commit.message), hash)
                IN  [repo |-> [done.repo EXCEPT !.lastEvent = Event("git_revert")],
                     res |-> done.res]

-----------------------------------------------------------------------------
(* App: the seed remote, the teammate, the lesson setups *)

\* App.seedRemotes on an empty store; the two commits take hashes h and h+1.
seedRemotes(store, h) ==
  LET tmp0 == gitInit(NewRepo).repo
      tmp1 == gitAdd([tmp0 EXCEPT !.workingFiles = Put(@, README, <<"# Acme Widgets", "Welcome!">>)],
                     <<README>>).repo
      tmp2 == gitCommit(tmp1, <<"Initial commit">>, h).repo
      tmp3 == gitAdd([tmp2 EXCEPT !.workingFiles = Put(@, CONTRIBUTING, <<"Please open a PR.">>)],
                     <<CONTRIBUTING>>).repo
      tmp == gitCommit(tmp3, <<"Add contributing guide">>, h + 1).repo
      ensured == ensureRepo(store, seedRemoteUrl)
  IN  IF ensured[seedRemoteUrl].commitOrder # << >> THEN ensured
      ELSE [ensured EXCEPT ![seedRemoteUrl] =
              [@ EXCEPT !.commits = tmp.commits,
                        !.commitOrder = tmp.commitOrder,
                        !.branches = [b \in {"main"} |-> head(tmp)]]]

\* The commit simulateTeammateCommitToOriginMain stores in the remote repo.
teammateCommit(remoteRepo, hash) ==
  LET headHash == remoteRepo.branches["main"]
      baseFiles == IF Has(remoteRepo.commits, headHash) THEN remoteRepo.commits[headHash].files
                   ELSE EmptyMap
      readme == IF Has(baseFiles, README) /\ baseFiles[README] # << >>
                THEN baseFiles[README] ELSE <<"# Acme Widgets">>
  IN  [hash |-> hash,
       message |-> <<"Teammate: update README">>,
       parents |-> IF headHash # 0 THEN <<headHash>> ELSE << >>,
       files |-> Put(baseFiles, README, readme \o <<"## Teammate update", "Pulled from origin.">>),
       branch |-> "main"]

\* App.simulateTeammateCommitToOriginMain(repo): the store afterwards.
simulateTeammateCommitToOriginMain(r, store, hash) ==
  IF ~Has(r.remotes, "origin") THEN store
  ELSE LET url == r.remotes["origin"].url
           ensured == ensureRepo(store, url)
       IN  [ensured EXCEPT ![url] =
              [@ EXCEPT !.commits = Put(@, hash, teammateCommit(ensured[url], hash)),
                        !.commitOrder = Append(@, hash),
                        !.branches = Put(@, "main", hash)]]

LessonIds == {"lesson1", "lesson2", "lesson3", "lesson4", "lesson5", "lesson6"}

setup1 ==
  [NewRepo EXCEPT !.directories = @ \cup {"/docs"},
                  !.workingFiles = Put(@, TIPS, <<"Try: git init", "Try: git status">>)]

setup2 == gitInit(NewRepo).repo

setup3(h) ==
  LET written == [gitInit(NewRepo).repo EXCEPT !.workingFiles = Put(@, README, <<"# Branching Demo">>)]
  IN  gitCommit(gitAdd(written, <<README>>).repo, <<"Initial commit">>, h).repo

setup4(h) ==
  LET r1 == [gitInit(NewRepo).repo EXCEPT !.workingFiles = Put(@, CONFIG, <<"color=blue">>)]
      r2 == gitCommit(gitAdd(r1, <<CONFIG>>).repo, <<"Add config">>, h).repo
      r3 == gitCheckout(r2, <<"-b", "feature/theme">>).repo
      r4 == [r3 EXCEPT !.workingFiles = Put(@, CONFIG, <<"color=green">>)]
      r5 == gitCommit(gitAdd(r4, <<CONFIG>>).repo, <<"Theme: green">>, h + 1).repo
      r6 == gitCheckout(r5, <<"main">>).repo
      r7 == [r6 EXCEPT !.workingFiles = Put(@, CONFIG, <<"color=red">>)]
  IN  gitCommit(gitAdd(r7, <<CONFIG>>).repo, <<"Theme: red">>, h + 2).repo

\* lesson.setup(repo, ctx) on a new SimulatedRepo: the repo, the store and
\* the next free hash afterwards.
setup(lessonId, store, h) ==
  CASE lessonId = "lesson1" -> [repo |-> setup1, store |-> store, next |-> h]
    [] lessonId = "lesson2" -> [repo |-> setup2, store |-> store, next |-> h]
    [] lessonId = "lesson3" -> [repo |-> setup3(h), store |-> store, next |-> h + 1]
    [] lessonId = "lesson4" -> [repo |-> setup4(h), store |-> store, next |-> h + 3]
    [] lessonId = "lesson5" ->
         LET c == gitClone(NewRepo, store, seedRemoteUrl)
         IN  [repo |-> c.repo, store |-> c.store, next |-> h]
    [] lessonId = "lesson6" ->
         LET c == gitClone(NewRepo, store, seedRemoteUrl)
         IN  [repo |-> c.repo,
              store |-> simulateTeammateCommitToOriginMain(c.repo, c.store, h),
              next |-> h + 1]

\* The state after App.init() on empty storage followed by the first load of
\* a lesson: the seeded store and the lesson's setup.
Loaded(lessonId) == setup(lessonId, seedRemotes(EmptyMap, 1), 3)

-----------------------------------------------------------------------------
(* The App controller: steps, checkpoints, badges, saved lesson state      *)
(*                                                                         *)
(* `app` is a record:                                                      *)
(*   stepIndex, checkpoints   App.stepIndex, App.checkpoints               *)
(*   lessons, badges          App.state.lessons, App.state.badges          *)
(*   unlocked                 per badge, the "Achievement unlocked" lines  *)
(*                            printed so far                               *)
(*   shared, sharedAt         the fields of App.repo that are the very     *)
(*                            objects of checkpoints[sharedAt]: deserialize *)
(*                            hands the objects of its argument to the new *)
(*                            repo without copying them                    *)
(*   began                    per lesson and step index, the serialized    *)
(*                            repo at the moment that step began (history) *)
(* nowMs() is the number of the handler that is running.                   *)

\* `badge_complete_${l.id}`
completeBadge(lessonId) == "badge_complete_" \o lessonId

BadgeIds ==
  {"badge_first_init", "badge_first_commit", "badge_brancher", "badge_merger",
   "badge_remote", "badge_safety", "badge_quiz_master"}
    \cup {completeBadge(l) : l \in LessonIds}

\* earnedAt: null is 0; the first handler runs at 1.
emptyBadgesState == [b \in BadgeIds |-> [earned |-> FALSE, earnedAt |-> 0]]

\* The lesson state getLessonState creates.
newLessonState ==
  [stepIndex |-> 0,
   completed |-> FALSE,
   quiz |-> [taken |-> FALSE, passed |-> FALSE],
   repo |-> Null,
   checkpoints |-> EmptyMap]

\* The fields of a SimulatedRepo that hold objects or arrays.
ObjectFields ==
  {"directories", "workingFiles", "stagedFiles", "commits", "commitOrder", "branches",
   "mergeState", "remotes", "upstreams", "stash"}

\* An earnBadge without the `earned` guard.
earnBadgeAgain(a, id, now) ==
  [a EXCEPT !.badges[id] = [earned |-> TRUE, earnedAt |-> now],
            !.unlocked[id] = @ + 1]

earnBadge(a, id, now) ==
  IF ~Has(a.badges, id) \/ a.badges[id].earned THEN a
  ELSE [a EXCEPT !.badges[id] = [earned |-> TRUE, earnedAt |-> now],
                 !.unlocked[id] = @ + 1]

\* earnBadge on each id of a set, one after the other.
RECURSIVE earnEach(_, _, _)
earnEach(a, ids, now) ==
  IF ids = {} THEN a
  ELSE LET id == CHOOSE x \in ids : TRUE
       IN  earnEach(earnBadge(a, id, now), ids \ {id}, now)

syncBadges(a, now) ==
  earnEach(a,
           {completeBadge(l) : l \in {k \in LessonIds : a.lessons[k].completed}}
             \cup (IF \A l \in LessonIds : a.lessons[l].quiz.passed
                   THEN {"badge_quiz_master"} ELSE {}),
           now)

\* The badges evaluateBadges awards for the type of repo.lastEvent.
eventBadges(type) ==
  CASE type = "git_init" -> {"badge_first_init"}
    [] type = "git_commit" -> {"badge_first_commit"}
    [] type = "git_branch_create" -> {"badge_brancher"}
    [] type = "git_merge" -> {"badge_merger"}
    [] type = "git_push" -> {"badge_remote"}
    [] type \in {"git_stash", "git_reset_hard", "git_revert"} -> {"badge_safety"}
    [] OTHER -> {}

evaluateBadges(a, r, now) ==
  IF r.lastEvent = NoEvent THEN a
  ELSE syncBadges(earnEach(a, eventBadges(r.lastEvent.type), now), now)

\* A command line is the sequence of its words; a file argument stands for
\* the path it names under cwd "/".
\* LESSONS[l].steps.length, for the lessons the App specifications load.
stepCount(lessonId) ==
  CASE lessonId = "lesson1" -> 5
    [] lessonId = "lesson2" -> 5
    [] lessonId = "lesson5" -> 4
    [] lessonId = "lesson6" -> 6

\* `const start = app.checkpoints[app.stepIndex]; if (!start) return true;`
\* and the comparison with SimulatedRepo.deserialize(start) that follows.
sinceStepBegan(a, P(_)) ==
  ~Has(a.checkpoints, a.stepIndex) \/ P(deserialize(a.checkpoints[a.stepIndex]))

\* LESSONS[l].steps[i].validate({command, repo, app}), for the same lessons.
validate(a, lessonId, i, command, r) ==
  CASE lessonId = "lesson1" /\ i = 0 -> command = <<"git", "init">> /\ r.initialized
    [] lessonId = "lesson1" /\ i = 1 ->
         command = <<"git", "status">> /\ getStatus(r).untracked # {}
    [] lessonId = "lesson1" /\ i = 2 -> Has(r.workingFiles, README)
    [] lessonId = "lesson1" /\ i = 3 -> command = <<"ls">> /\ Has(r.workingFiles, README)
    [] lessonId = "lesson1" /\ i = 4 -> command = <<"cat", README>>
    [] lessonId = "lesson2" /\ i = 0 -> Has(r.workingFiles, README)
    [] lessonId = "lesson2" /\ i = 1 ->
         command = <<"git", "add", README>> /\ Has(r.stagedFiles, README)
    [] lessonId = "lesson2" /\ i = 2 ->
         /\ Len(command) >= 2
         /\ SubSeq(command, 1, 2) = <<"git", "commit">>
         /\ Len(r.commitOrder) = 1
    [] lessonId = "lesson2" /\ i = 3 -> command = <<"git", "log", "--oneline">>
    [] lessonId = "lesson2" /\ i = 4 -> Len(r.commitOrder) >= 2
    [] lessonId = "lesson5" /\ i = 0 -> command = <<"git", "remote", "-v">>
    [] lessonId = "lesson5" /\ i = 1 -> Len(r.commitOrder) >= 3
    [] lessonId = "lesson5" /\ i = 2 ->
         command = <<"git", "push", "-u", "origin", "main">> /\ r.lastEvent.type = "git_push"
    [] lessonId = "lesson5" /\ i = 3 ->
         /\ command = <<"git", "pull">>
         /\ r.lastEvent.type \in {"git_pull_ff", "git_pull_merge"}
         /\ Len(r.commitOrder) >= 4
    [] lessonId = "lesson6" /\ i = 0 -> Has(r.workingFiles, NOTES)
    [] lessonId = "lesson6" /\ i = 1 ->
         command = <<"git", "stash">> /\ Len(r.stash) = 1 /\ ~getStatus(r).isDirty
    [] lessonId = "lesson6" /\ i = 2 ->
         /\ command = <<"git", "pull">>
         /\ r.lastEvent.type \in {"git_pull_ff", "git_pull_merge"}
         /\ sinceStepBegan(a, LAMBDA startRepo : head(r) # head(startRepo))
    [] lessonId = "lesson6" /\ i = 3 ->
         command = <<"git", "stash", "pop">> /\ Has(r.workingFiles, NOTES)
    [] lessonId = "lesson6" /\ i = 4 ->
         /\ r.lastEvent.type = "git_reset_hard"
         /\ ~Has(r.workingFiles, NOTES)
         /\ sinceStepBegan(a, LAMBDA startRepo :
                                /\ Len(r.commitOrder) > Len(startRepo.commitOrder)
                                /\ head(r) = head(startRepo))
    [] lessonId = "lesson6" /\ i = 5 ->
         Len(r.commitOrder) >= 3 /\ r.lastEvent.type = "git_revert"

\* LESSONS[l].onStepComplete({stepIndex, repo, ctx}): lesson5 has the
\* teammate commit to origin/main once the push step is done.  The store
\* and the next free hash afterwards.
onStepComplete(lessonId, stepIndex, r, store, h) ==
  IF lessonId = "lesson5" /\ stepIndex = 2 /\ Has(r.remotes, "origin")
  THEN [store |-> simulateTeammateCommitToOriginMain(r, store, h), next |-> h + 1]
  ELSE [store |-> store, next |-> h]

\* A loop that, when the current step validates, takes the next step for
\* passed as well.
advanceSkipping(a, lessonId, command, r, store, h) ==
  IF a.stepIndex < stepCount(lessonId) /\ validate(a, lessonId, a.stepIndex, command, r)
  THEN [app |-> [a EXCEPT !.stepIndex = IF @ + 2 <= stepCount(lessonId) THEN @ + 2 ELSE @ + 1,
                          !.checkpoints = Put(@, a.stepIndex + 1, serialize(r))],
        store |-> store, next |-> h]
  ELSE [app |-> a, store |-> store, next |-> h]

\* The loop of maybeCompleteStep: while the current step validates, move to
\* the next one, store its checkpoint and run the lesson's hook on the index
\* of the step that was completed.
RECURSIVE advance(_, _, _, _, _, _)
advance(a, lessonId, command, r, store, h) ==
  IF a.stepIndex < stepCount(lessonId) /\ validate(a, lessonId, a.stepIndex, command, r)
  THEN advance([a EXCEPT !.stepIndex = @ + 1,
                         !.checkpoints = Put(@, a.stepIndex + 1, serialize(r)),
                         !.began[lessonId] = Put(@, a.stepIndex + 1, serialize(r))],
               lessonId, command, r,
               onStepComplete(lessonId, a.stepIndex, r, store, h).store,
               onStepComplete(lessonId, a.stepIndex, r, store, h).next)
  ELSE [app |-> a, store |-> store, next |-> h]

\* The end of maybeCompleteStep, after the loop has left `adv`: nothing more
\* unless a step was completed and it was the last one.
lessonDone(a, adv, lessonId, now) ==
  IF adv.app.stepIndex = a.stepIndex \/ adv.app.stepIndex < stepCount(lessonId) THEN adv
  ELSE IF a.lessons[lessonId].completed
  THEN [adv EXCEPT !.app.lessons[lessonId].completed = TRUE]
  ELSE [adv EXCEPT !.app = earnBadge([@ EXCEPT !.lessons[lessonId].completed = TRUE],
                                     completeBadge(lessonId), now)]

maybeCompleteStep(a, lessonId, command, r, store, h, now) ==
  lessonDone(a, advance(a, lessonId, command, r, store, h), lessonId, now)

saveAppState(a, lessonId, r) ==
  [a EXCEPT !.lessons[lessonId] = [@ EXCEPT !.stepIndex = a.stepIndex,
                                            !.repo = serialize(r),
                                            !.checkpoints = a.checkpoints]]

\* loadLesson(lessonId) when the lesson has a saved repo.  The new repo
\* shares no object with the checkpoints: saveAppState stores copies.
loadSaved(a, lessonId, saved, store, h) ==
  [app |-> saveAppState([a EXCEPT !.checkpoints = saved.checkpoints,
                                  !.stepIndex = saved.stepIndex,
                                  !.shared = {}],
                        lessonId, deserialize(saved.repo)),
   repo |-> deserialize(saved.repo), store |-> store, next |-> h]

\* loadLesson(lessonId) when it has none: `made` is what lesson.setup left.
loadFresh(a, lessonId, made) ==
  [app |-> saveAppState([a EXCEPT !.checkpoints = Put(EmptyMap, 0, serialize(made.repo)),
                                  !.stepIndex = 0,
                                  !.shared = {},
                                  !.began[lessonId] = Put(EmptyMap, 0, serialize(made.repo))],
                        lessonId, made.repo),
   repo |-> made.repo, store |-> made.store, next |-> made.next]

loadLesson(a, lessonId, store, h) ==
  IF a.lessons[lessonId].repo # Null
  THEN loadSaved(a, lessonId, a.lessons[lessonId], store, h)
  ELSE CHOOSE out \in {loadFresh(a, lessonId, made) : made \in {setup(lessonId, store, h)}} : TRUE

resetLesson(a, lessonId, store, h) ==
  loadLesson([a EXCEPT !.lessons[lessonId] = newLessonState], lessonId, store, h)

\* What an object shared between the repo and a checkpoint holds is what the
\* repo holds: the checkpoint shows every write made through the repo.
writtenThrough(a, r) ==
  IF a.shared = {} THEN a
  ELSE [a EXCEPT !.checkpoints[a.sharedAt] =
          [f \in DOMAIN @ |-> IF f \in a.shared THEN r[f] ELSE @[f]]]

resetRepoToCheckpoint(a, lessonId, store, h) ==
  IF ~Has(a.checkpoints, a.stepIndex) THEN resetLesson(a, lessonId, store, h)
  ELSE LET r == deserialize(a.checkpoints[a.stepIndex])
           sharing == [a EXCEPT !.shared = ObjectFields \ (IF r.mergeState = Null
                                                           THEN {"mergeState"} ELSE {}),
                                !.sharedAt = a.stepIndex]
       IN  [app |-> saveAppState(writtenThrough(sharing, r), lessonId, r),
            repo |-> r, store |-> store, next |-> h]

\* runShell on the lines the App specifications type.
runShell(r, line) ==
  CASE line[1] = "echo" -> shellWrite(r, line[4], <<line[2]>>)
    [] line[1] = "rm" -> shellRm(r, line[2])
    [] line[1] = "ls" -> [repo |-> r, res |-> Ok("ls")]
    [] line[1] = "cat" ->
         [repo |-> r, res |-> IF Has(r.workingFiles, line[2]) THEN Ok("cat")
                              ELSE Fail("cat: No such file")]

\* A command that leaves the remote store alone.
Locally(x, store) == [repo |-> x.repo, store |-> store, res |-> x.res]

\* runGit on the lines the App specifications type; ctx holds the store.
runGit(r, store, line, hash) ==
  CASE line[2] = "init" -> Locally(gitInit(r), store)
    [] line[2] = "status" ->
         [repo |-> r, store |-> store,
          res |-> IF ensureInitialized(r) THEN Ok("status") ELSE NotARepo]
    [] line[2] = "add" -> Locally(gitAdd(r, SubSeq(line, 3, Len(line))), store)
    [] line[2] = "commit" -> Locally(gitCommit(r, <<line[4]>>, hash), store)
    [] line[2] = "log" ->
         [repo |-> r, store |-> store,
          res |-> IF ~ensureInitialized(r) THEN NotARepo
                  ELSE IF head(r) = 0 THEN Fail("fatal: your current branch has no commits")
                  ELSE Ok("log")]
    [] line[2] = "branch" -> Locally(gitBranch(r, IF Len(line) > 2 THEN line[3] ELSE ""), store)
    [] line[2] = "checkout" -> Locally(gitCheckout(r, SubSeq(line, 3, Len(line))), store)
    [] line[2] = "remote" ->
         [repo |-> r, store |-> store,
          res |-> IF ensureInitialized(r) THEN Ok("remote -v") ELSE NotARepo]
    [] line[2] = "push" -> gitPush(r, store, SubSeq(line, 3, Len(line)))
    [] line[2] = "pull" -> Locally(gitPull(r, store, SubSeq(line, 3, Len(line)), hash), store)
    [] line[2] = "stash" -> Locally(gitStash(r, SubSeq(line, 3, Len(line))), store)
    [] line[2] = "reset" -> Locally(gitReset(r, line[3], SubSeq(line, 4, Len(line))), store)

exec(r, store, line, hash) ==
  IF line[1] = "git" THEN runGit(r, store, line, hash) ELSE Locally(runShell(r, line), store)

\* The fields to which the command assigned a new object (the others it
\* wrote in place, or left alone).
replaced(line, x) ==
  IF line[1] # "git" THEN {}
  ELSE IF line[2] = "pull"
  THEN (IF x.res = Ok("Fast-forward (simulated).") THEN {"workingFiles"}
        ELSE IF \/ x.res.ok /\ x.res # Ok("Already up to date.")
                \/ x.res = Fail("Auto-merging (simulated)...")
        THEN {"workingFiles", "stagedFiles", "mergeState"}
        ELSE {})
  ELSE IF ~x.res.ok THEN {}
  ELSE CASE line[2] = "commit" -> {"stagedFiles", "mergeState"}
         [] line[2] = "checkout" ->
              IF line[3] = "-b" THEN {"workingFiles"}
              ELSE {"workingFiles", "stagedFiles", "mergeState"}
         [] line[2] \in {"stash", "reset"} -> {"workingFiles", "stagedFiles", "mergeState"}
         [] OTHER -> {}

\* The end of runCommand, after maybeCompleteStep has left `stepped`:
\* evaluateBadges and saveAppState.
afterSteps(stepped, lessonId, r, now) ==
  [app |-> saveAppState(evaluateBadges(stepped.app, r, now), lessonId, r),
   repo |-> r, store |-> stepped.store, next |-> stepped.next]

\* runCommand after exec has returned x.
afterExec(a, lessonId, line, x, hash, now) ==
  afterSteps(maybeCompleteStep(writtenThrough([a EXCEPT !.shared = @ \ replaced(line, x)], x.repo),
                               lessonId, line, x.repo, x.store,
                               IF Has(x.repo.commits, hash) THEN hash + 1 ELSE hash, now),
             lessonId, x.repo, now)

\* runCommand(command), past the built-in clear, help and edit: the App, the
\* repo, the store and the next free hash afterwards.
runCommand(a, lessonId, r, store, line, hash, now) ==
  afterExec(a, lessonId, line, exec(r, store, line, hash), hash, now)

submitQuiz(a, lessonId, r, passed, now) ==
  saveAppState(evaluateBadges([a EXCEPT !.lessons[lessonId].quiz = [taken |-> TRUE,
                                                                    passed |-> passed]],
                              r, now),
               lessonId, r)

\* The App after its constructor and the first lines of init() on an empty
\* storage: syncBadges has created the state of every lesson.
NewApp ==
  [stepIndex |-> 0,
   checkpoints |-> EmptyMap,
   lessons |-> [l \in LessonIds |-> newLessonState],
   badges |-> emptyBadgesState,
   unlocked |-> [b \in BadgeIds |-> 0],
   shared |-> {},
   sharedAt |-> 0,
   began |-> [l \in LessonIds |-> EmptyMap]]

-----------------------------------------------------------------------------
(* The inputs the learner's command lines are drawn from *)

Lessons == LessonIds

UserPaths == {README, CONFIG}

UserTexts == {<<"a">>}

\* The branch names typed: an ordinary one and the name gitPull uses for its
\* temporary branch (gitBranch accepts any name).
UserBranches == {"feat", TmpName("origin", "main")}

BranchArgs == {"main", "feat", "feature/theme"}

Urls == {seedRemoteUrl, OtherUrl}

\* The url arguments typed: the two urls and a quoted blank one.
UrlArgs == Urls \cup {BlankUrl}

AddArgs == {<<p>> : p \in UserPaths} \cup {<<".">>, <<README, CONFIG>>}

PushArgs == {<< >>, <<"-u", "origin", "main">>, <<"origin", "feat">>}

HashArgs == {HashStr(h) : h \in 1..4} \cup {<<alphabet[1]>>, <<alphabet[2]>>}

CheckoutArgs == {<<b>> : b \in BranchArgs} \cup {<<"-b", b>> : b \in UserBranches}

ResetArgs == {<<"HEAD">>, <<"HEAD~1">>} \cup HashArgs

\* The first hash free after each lesson's load.
FirstHash == [l \in LessonIds |-> Loaded(l).next]

\* Hashes are drawn while the lesson's budget of new commits lasts.
CanCommit == nextHash < FirstHash[activeLesson] + MaxCommits

-----------------------------------------------------------------------------
(* The specification: App.runCommand on one command line *)

\* The learner types one more line and exec(cmd) returns x: the repo is the
\* one the command left.  Spec, SpecMerge and SpecStash follow the engine
\* alone: there `app` is Null throughout, and what runCommand does after
\* exec (steps, badges, saving) is followed in SpecApp.
Ran(x) ==
  /\ stepsLeft > 0
  /\ stepsLeft' = stepsLeft - 1
  /\ repo' = x.repo
  /\ app' = app

\* App.init and loadLesson(l): the seeded remotes, lesson l's repo.
Start(l) ==
  /\ app = Null
  /\ repo = Loaded(l).repo
  /\ remoteStore = Loaded(l).store
  /\ activeLesson = l
  /\ nextHash = Loaded(l).next

\* genHash was called iff the command stored a commit, which the budget
\* of new commits has to allow.
Drawn ==
  IF Has(repo'.commits, nextHash)
  THEN CanCommit /\ nextHash' = nextHash + 1
  ELSE nextHash' = nextHash

Init == \E l \in Lessons : Start(l) /\ stepsLeft = MaxSteps

\* A session of the merging lesson or the branching lesson, long enough for
\* both branches to commit before they merge.
InitMerge == \E l \in {"lesson3", "lesson4"} : Start(l) /\ stepsLeft = MergeSteps

Write ==
  \E p \in UserPaths, t \in UserTexts :
    /\ Ran(shellWrite(repo, p, t))
    /\ UNCHANGED <<remoteStore, activeLesson, nextHash>>

Rm ==
  \E p \in UserPaths :
    /\ Ran(shellRm(repo, p))
    /\ UNCHANGED <<remoteStore, activeLesson, nextHash>>

GitInit ==
  /\ Ran(gitInit(repo))
  /\ UNCHANGED <<remoteStore, activeLesson, nextHash>>

GitAdd ==
  \E args \in AddArgs :
    /\ Ran(gitAdd(repo, args))
    /\ UNCHANGED <<remoteStore, activeLesson, nextHash>>

GitCommit ==
  /\ Ran(gitCommit(repo, <<"m">>, nextHash))
  /\ Drawn
  /\ UNCHANGED <<remoteStore, activeLesson>>

GitBranch ==
  \E name \in UserBranches :
    /\ Ran(gitBranch(repo, name))
    /\ UNCHANGED <<remoteStore, activeLesson, nextHash>>

GitCheckout ==
  \E args \in CheckoutArgs :
    /\ Ran(gitCheckout(repo, args))
    /\ UNCHANGED <<remoteStore, activeLesson, nextHash>>

GitMerge ==
  \E b \in BranchArgs :
    /\ Ran(gitMerge(repo, b, nextHash))
    /\ Drawn
    /\ UNCHANGED <<remoteStore, activeLesson>>

GitRemoteAdd ==
  \E url \in UrlArgs :
    LET x == gitRemoteAdd(repo, remoteStore, "origin", url)
    IN  /\ Ran(x)
        /\ remoteStore' = x.store
        /\ UNCHANGED <<activeLesson, nextHash>>

GitPush ==
  \E args \in PushArgs :
    LET x == gitPush(repo, remoteStore, args)
    IN  /\ Ran(x)
        /\ remoteStore' = x.store
        /\ UNCHANGED <<activeLesson, nextHash>>

GitPull ==
  /\ Ran(gitPull(repo, remoteStore, << >>, nextHash))
  /\ Drawn
  /\ UNCHANGED <<remoteStore, activeLesson>>

GitClone ==
  \E url \in UrlArgs :
    LET x == gitClone(repo, remoteStore, url)
    IN  /\ Ran(x)
        /\ remoteStore' = x.store
        /\ UNCHANGED <<activeLesson, nextHash>>

GitStash ==
  /\ Len(repo.stash) < MaxStash
  /\ Ran(gitStash(repo, << >>))
  /\ UNCHANGED <<remoteStore, activeLesson, nextHash>>

GitStashPop ==
  /\ Ran(gitStash(repo, <<"pop">>))
  /\ UNCHANGED <<remoteStore, activeLesson, nextHash>>

GitReset ==
  \E target \in ResetArgs :
    /\ Ran(gitReset(repo, "--hard", target))
    /\ UNCHANGED <<remoteStore, activeLesson, nextHash>>

GitRevert ==
  \E hashArg \in HashArgs :
    /\ Ran(gitRevert(repo, hashArg, nextHash))
    /\ Drawn
    /\ UNCHANGED <<remoteStore, activeLesson>>

Next ==
  \/ Write
  \/ Rm
  \/ GitInit
  \/ GitAdd
  \/ GitCommit
  \/ GitBranch
  \/ GitCheckout
  \/ GitMerge
  \/ GitRemoteAdd
  \/ GitPush
  \/ GitPull
  \/ GitClone
  \/ GitStash
  \/ GitStashPop
  \/ GitReset
  \/ GitRevert

Spec == Init /\ [][Next]_vars

\* The commands of the merging lesson: remove, stage, commit, switch, merge.
NextMerge ==
  \/ Rm
  \/ GitAdd
  \/ GitCommit
  \/ GitCheckout
  \/ GitMerge

SpecMerge == InitMerge /\ [][NextMerge]_vars

\* The handlers run in a session of SpecApp.
AppSteps == 5

\* A session of the staging lesson or the branching lesson spent on writing,
\* staging, stashing and popping.
InitStash == \E l \in {"lesson2", "lesson3"} : Start(l) /\ stepsLeft = StashSteps

NextStash ==
  \/ Write
  \/ GitAdd
  \/ GitStash
  \/ GitStashPop

SpecStash == InitStash /\ [][NextStash]_vars

-----------------------------------------------------------------------------
(* The specification of the App: its handlers on the first two lessons *)

AppLessons == {"lesson1", "lesson2"}

\* The command lines typed in SpecApp: what the two lessons ask for, a
\* second file to write and stage, and a reset.
CommandLines ==
  {<<"git", "init">>, <<"git", "status">>, <<"ls">>, <<"cat", README>>,
   <<"echo", "a", ">", README>>, <<"echo", "a", ">", CONFIG>>,
   <<"git", "add", README>>, <<"git", "add", ".">>,
   <<"git", "commit", "-m", "m">>, <<"git", "log", "--oneline">>,
   <<"git", "reset", "--hard", "HEAD">>}

\* nowMs() in the handler that runs next.
Now == AppSteps - stepsLeft + 1

\* A handler runs; `next` is the next free hash after the commits it stored.
Handled(next) ==
  /\ stepsLeft > 0
  /\ stepsLeft' = stepsLeft - 1
  /\ next <= FirstHash["lesson1"] + MaxCommits
  /\ nextHash' = next

\* App.init() on an empty storage: the seeded remotes, lesson1 loaded.
InitApp ==
  \E first \in {loadLesson(NewApp, "lesson1", seedRemotes(EmptyMap, 1), 3)} :
    /\ app = first.app
    /\ repo = first.repo
    /\ remoteStore = first.store
    /\ nextHash = first.next
    /\ activeLesson = "lesson1"
    /\ stepsLeft = AppSteps

\* The handler has run and left `out`.
Left(out) ==
  /\ app' = out.app
  /\ repo' = out.repo
  /\ remoteStore' = out.store
  /\ Handled(out.next)

RunCommand ==
  \E line \in CommandLines :
    /\ \E out \in {runCommand(app, activeLesson, repo, remoteStore, line, nextHash, Now)} :
         Left(out)
    /\ UNCHANGED activeLesson

ResetRepo ==
  /\ \E out \in {resetRepoToCheckpoint(app, activeLesson, remoteStore, nextHash)} : Left(out)
  /\ UNCHANGED activeLesson

ResetLesson ==
  /\ \E out \in {resetLesson(app, activeLesson, remoteStore, nextHash)} : Left(out)
  /\ UNCHANGED activeLesson

LoadLesson ==
  \E l \in AppLessons :
    /\ \E out \in {loadLesson(app, l, remoteStore, nextHash)} : Left(out)
    /\ activeLesson' = l

SubmitQuiz ==
  \E passed \in BOOLEAN :
    /\ app' = submitQuiz(app, activeLesson, repo, passed, Now)
    /\ UNCHANGED <<repo, remoteStore, activeLesson>>
    /\ Handled(nextHash)

NextApp ==
  \/ RunCommand
  \/ ResetRepo
  \/ ResetLesson
  \/ LoadLesson
  \/ SubmitQuiz

SpecApp == InitApp /\ [][NextApp]_vars

-----------------------------------------------------------------------------
(* The specification of the clone-based lessons: App handlers on lessons   *)
(* 5 and 6, which share the remote store                                   *)

RemoteLessons == {"lesson5", "lesson6"}

\* The command lines typed there: what lesson 5 asks for.
RemoteLines ==
  {<<"git", "remote", "-v">>, <<"echo", "a", ">", README>>, <<"git", "add", README>>,
   <<"git", "commit", "-m", "m">>, <<"git", "push", "-u", "origin", "main">>,
   <<"git", "pull">>}

RunRemoteCommand ==
  \E line \in RemoteLines :
    /\ \E out \in {runCommand(app, activeLesson, repo, remoteStore, line, nextHash, Now)} :
         Left(out)
    /\ UNCHANGED activeLesson

LoadRemoteLesson ==
  \E l \in RemoteLessons :
    /\ \E out \in {loadLesson(app, l, remoteStore, nextHash)} : Left(out)
    /\ activeLesson' = l

NextRemote ==
  \/ RunRemoteCommand
  \/ LoadRemoteLesson
  \/ ResetLesson

SpecRemote == InitApp /\ [][NextRemote]_vars

-----------------------------------------------------------------------------
(* What one more command line would do in the current state *)

\* The outcome of a command that leaves the remote store alone, and of one
\* that may write to it.
Local(cmd, args, x) ==
  [cmd |-> cmd, args |-> args, repo |-> x.repo, store |-> remoteStore, res |-> x.res]

Stored(cmd, args, x) ==
  [cmd |-> cmd, args |-> args, repo |-> x.repo, store |-> x.store, res |-> x.res]

\* P holds of the outcome x of the command line cmd args.
OfLocal(P(_), cmd, args, x) == \A y \in {x} : \A o \in {Local(cmd, args, y)} : P(o)

OfStored(P(_), cmd, args, x) == \A y \in {x} : \A o \in {Stored(cmd, args, y)} : P(o)

\* P holds of the outcome of every command line of the inputs that can
\* commit: commit itself, and merge, pull and revert through their internal
\* gitCommit.
EveryCommitting(P(_)) ==
  /\ OfLocal(P, "commit", <<"-m", "m">>, gitCommit(repo, <<"m">>, nextHash))
  /\ \A b \in BranchArgs : OfLocal(P, "merge", <<b>>, gitMerge(repo, b, nextHash))
  /\ OfLocal(P, "pull", << >>, gitPull(repo, remoteStore, << >>, nextHash))
  /\ \A hashArg \in HashArgs : OfLocal(P, "revert", hashArg, gitRevert(repo, hashArg, nextHash))

\* P holds of the outcome of runShell and runGit on every command line of
\* the inputs.
EveryCommand(P(_)) ==
  /\ \A path \in UserPaths, t \in UserTexts :
       OfLocal(P, "echo", <<path>> \o t, shellWrite(repo, path, t))
  /\ \A path \in UserPaths : OfLocal(P, "rm", <<path>>, shellRm(repo, path))
  /\ OfLocal(P, "init", << >>, gitInit(repo))
  /\ \A args \in AddArgs : OfLocal(P, "add", args, gitAdd(repo, args))
  /\ \A name \in UserBranches : OfLocal(P, "branch", <<name>>, gitBranch(repo, name))
  /\ \A args \in CheckoutArgs : OfLocal(P, "checkout", args, gitCheckout(repo, args))
  /\ \A url \in Urls :
       OfStored(P, "remote", <<"add", "origin", url>>, gitRemoteAdd(repo, remoteStore, "origin", url))
  /\ \A args \in PushArgs : OfStored(P, "push", args, gitPush(repo, remoteStore, args))
  /\ \A url \in Urls : OfStored(P, "clone", <<url>>, gitClone(repo, remoteStore, url))
  /\ \A args \in {<< >>, <<"pop">>} : OfLocal(P, "stash", args, gitStash(repo, args))
  /\ \A target \in ResetArgs :
       OfLocal(P, "reset", <<"--hard">> \o target, gitReset(repo, "--hard", target))
  /\ EveryCommitting(P)

\* The command stored a new commit under the hash genHash drew.
Committed(o) == Has(o.repo.commits, nextHash)

-----------------------------------------------------------------------------
(* Properties *)

\* C1: in every reachable state of the local repo, every parent hash listed
\* by a commit stored in `commits` is itself a key of `commits`.
ParentsAreCommits ==
  \A h \in DOMAIN repo.commits :
    \A p \in Range(repo.commits[h].parents) : Has(repo.commits, p)

\* A pull has brought the remote's history into the repo and a merge commit
\* with its two parents is stored.
ParentsAreCommitsSeen ==
  /\ \E h \in DOMAIN repo.commits : Len(repo.commits[h].parents) = 2
  /\ \E h \in DOMAIN repo.commits :
       /\ Has(remoteStore[seedRemoteUrl].commits, h)
       /\ repo.commits[h].parents # << >>
  /\ repo.lastEvent.type \in {"git_pull_merge", "git_commit", "git_merge"}

\* C2: in every reachable state every entry of `branches` is null or the hash
\* of a commit in `commits`.
BranchesAreCommits ==
  \A b \in DOMAIN repo.branches : repo.branches[b] = 0 \/ Has(repo.commits, repo.branches[b])

\* reset --hard has moved the current branch back to a commit that has a
\* child, beside a second branch.
BranchesAreCommitsSeen ==
  /\ repo.lastEvent.type = "git_reset_hard"
  /\ head(repo) # 0
  /\ \E h \in DOMAIN repo.commits : head(repo) \in Range(repo.commits[h].parents)
  /\ Cardinality(DOMAIN repo.branches) > 1

\* A merge, or a pull that merges, stopped on conflicts: the one failure that
\* is allowed to leave its work behind.
StoppedOnConflicts(o) ==
  /\ o.cmd \in {"merge", "pull"}
  /\ o.repo.mergeState # Null
  /\ o.repo.mergeState.conflicts # {}

\* C3: a command that returns ok = false leaves the repo and the remote store
\* exactly as they were, unless it is a merge (or a merging pull) that stopped
\* on conflicts.
FailureChangesNothing ==
  LET unchanged(o) ==
        (~o.res.ok /\ ~StoppedOnConflicts(o)) => (o.repo = repo /\ o.store = remoteStore)
  IN  EveryCommand(unchanged)

\* The four lists of `git status` are all empty.
StatusClean(r) ==
  /\ getStatus(r).staged = {}
  /\ getStatus(r).unstaged = {}
  /\ getStatus(r).untracked = {}
  /\ getStatus(r).conflicts = {}

\* The refusals of checkout, merge and pull for local changes.
DirtyRefusals ==
  {Fail("error: Your local changes would be overwritten by checkout (simulated)."),
   Fail("error: cannot merge because you have local changes (simulated)."),
   Fail("error: cannot pull with local changes (simulated).")}

\* C4: in an initialized repo checkout, merge and pull are refused for local
\* changes exactly when status lists a staged, unstaged, untracked or
\* conflicted path.
DirtyIsWhatStatusLists ==
  LET asListed(o) ==
        o.cmd \in {"checkout", "merge", "pull"} =>
          ((o.res \in DirtyRefusals) <=> ~StatusClean(repo))
  IN  repo.initialized => EveryCommand(asListed)

\* C5: after any successful commit (plain, concluding a merge, or the
\* internal commit of merge, pull and revert) the index is empty and
\* mergeState is null.
CommitClearsIndexAndMerge ==
  LET cleared(o) ==
        Committed(o) => (o.repo.stagedFiles = EmptyMap /\ o.repo.mergeState = Null)
  IN  EveryCommitting(cleared)

\* The commit that concludes a conflicted merge has run: HEAD has two
\* parents, the index is empty and no merge is pending.
CommitClearsIndexAndMergeSeen ==
  /\ repo.lastEvent.type = "git_commit"
  /\ Has(repo.commits, head(repo))
  /\ Len(repo.commits[head(repo)].parents) = 2
  /\ repo.stagedFiles = EmptyMap
  /\ repo.mergeState = Null

\* C6: after a successful `checkout B` or `checkout -b B` the current
\* branch is B, the working tree is the snapshot of B's head (empty when B is
\* unborn), the index is empty and mergeState is null.
CheckoutSwitches ==
  LET switched(o) ==
        o.res.ok =>
          LET B == o.args[Len(o.args)]
          IN  /\ o.repo.currentBranch = B
              /\ Has(o.repo.branches, B)
              /\ o.repo.workingFiles = getSnapshot(o.repo, o.repo.branches[B])
              /\ o.repo.stagedFiles = EmptyMap
              /\ o.repo.mergeState = Null
  IN  \A args \in CheckoutArgs : OfLocal(switched, "checkout", args, gitCheckout(repo, args))

\* C7: after a successful `push R B` the remote repo under R's url has
\* branch B at the local head of B, holds every local commit reachable from
\* that head, and holds every parent its commits name.
PushPublishes ==
  LET published(o) ==
        o.res.ok =>
          LET B == pushBranchName(repo, o.args)
              remoteRepo == o.store[repo.remotes[pushRemoteName(repo, o.args)].url]
          IN  /\ Has(remoteRepo.branches, B)
              /\ remoteRepo.branches[B] = o.repo.branches[B]
              /\ reach(o.repo.commits, {o.repo.branches[B]}, {}) \subseteq DOMAIN remoteRepo.commits
              /\ \A h \in DOMAIN remoteRepo.commits :
                   Range(remoteRepo.commits[h].parents) \subseteq DOMAIN remoteRepo.commits
  IN  \A args \in PushArgs : OfStored(published, "push", args, gitPush(repo, remoteStore, args))

\* A push has run and the remote branch is at a commit the learner made in
\* this session, whose parent the remote holds too.
PushPublishesSeen ==
  /\ repo.lastEvent.type = "git_push"
  /\ Has(repo.remotes, "origin")
  /\ head(repo) >= FirstHash[activeLesson]
  /\ LET remoteRepo == remoteStore[repo.remotes["origin"].url]
     IN  /\ Has(remoteRepo.branches, repo.currentBranch)
         /\ remoteRepo.branches[repo.currentBranch] = head(repo)
         /\ remoteRepo.commits[head(repo)].parents # << >>

\* C8: after `clone U`, whatever the repo was, it is initialized, origin is
\* U, commits, commit order and branches are the remote's, the current branch
\* is main with upstream origin/main, the working tree is the snapshot of
\* main's head, and index, stash and merge state are empty.
CloneReplacesRepo ==
  LET cloned(o) ==
        o.res.ok =>
          LET U == o.args[1]
              r == o.repo
          IN  /\ Has(remoteStore, U) => o.store[U] = remoteStore[U]
              /\ r.initialized
              /\ Has(r.remotes, "origin") /\ r.remotes["origin"].url = U
              /\ r.commits = o.store[U].commits
              /\ r.commitOrder = o.store[U].commitOrder
              /\ r.branches = o.store[U].branches
              /\ r.currentBranch = "main"
              /\ Has(r.upstreams, "main")
              /\ r.upstreams["main"] = [remote |-> "origin", branch |-> "main"]
              /\ r.workingFiles = getSnapshot(r, IF Has(r.branches, "main") THEN r.branches["main"] ELSE 0)
              /\ r.stagedFiles = EmptyMap
              /\ r.stash = << >>
              /\ r.mergeState = Null
  IN  \A url \in Urls : OfStored(cloned, "clone", <<url>>, gitClone(repo, remoteStore, url))

\* A clone has run in the merging lesson: the lesson's own commits and its
\* feature branch are gone, the repo holds the remote's history.
CloneReplacesRepoSeen ==
  /\ activeLesson = "lesson4"
  /\ repo.lastEvent.type = "git_clone"
  /\ ~Has(repo.branches, "feature/theme")
  /\ repo.commitOrder # << >>
  /\ repo.commits = remoteStore[repo.remotes["origin"].url].commits
  /\ repo.workingFiles = getHeadSnapshot(repo)

\* The command concludes a merge: a merge or a merging pull that commits by
\* itself, or the commit typed while a merge is pending.
ConcludesMerge(o) ==
  \/ o.cmd \in {"merge", "pull"}
  \/ o.cmd = "commit" /\ repo.mergeState # Null

\* C9: every commit has at most two parents; a commit gets two parents only
\* when it concludes a merge, and then the two are distinct; a plain commit
\* outside a merge and the commit of a revert have at most one.
ParentsShape ==
  LET shaped(o) ==
        Committed(o) =>
          LET parents == o.repo.commits[nextHash].parents
          IN  /\ Len(parents) <= 2
              /\ Len(parents) = 2 => (parents[1] # parents[2] /\ ConcludesMerge(o))
  IN  /\ \A h \in DOMAIN repo.commits : Len(repo.commits[h].parents) <= 2
      /\ EveryCommitting(shaped)

\* C10: whenever mergeState is non-null the repo has unresolved conflicts or
\* a non-empty index; a command that leaves no merge pending leaves
\* mergeState null.
MergeStateMeansPending ==
  repo.mergeState # Null =>
    (repo.mergeState.conflicts # {} \/ repo.stagedFiles # EmptyMap)

\* C11: on an initialized repo `commit` fails with exit 1, stores no commit
\* and moves no branch head when the index is empty or the merge in progress
\* still lists conflicting paths; otherwise it succeeds, stores one commit
\* and moves the current branch to it.
CommitRefusedOrMade ==
  repo.initialized =>
    \A message \in {<<"m">>, << >>} :
      LET o == gitCommit(repo, message, nextHash)
      IN  IF repo.stagedFiles = EmptyMap \/ conflictsOf(repo) # {}
          THEN /\ ~o.res.ok
               /\ o.res.exitCode = 1
               /\ o.repo.commits = repo.commits
               /\ o.repo.commitOrder = repo.commitOrder
               /\ o.repo.branches = repo.branches
          ELSE /\ o.res.ok
               /\ o.res.exitCode = 0
               /\ DOMAIN o.repo.commits = DOMAIN repo.commits \cup {nextHash}
               /\ o.repo.commitOrder = Append(repo.commitOrder, nextHash)
               /\ head(o.repo) = nextHash

\* A merge has stopped on conflicts and a path has been staged since: the
\* index is not empty, and commit is refused for the unmerged files.
CommitRefusedSeen ==
  /\ repo.lastEvent.type = "git_add"
  /\ repo.stagedFiles # EmptyMap
  /\ conflictsOf(repo) # {}
  /\ gitCommit(repo, <<"m">>, nextHash).res =
       Fail("error: Committing is not possible because you have unmerged files.")

\* What exec returns when runGit or runShell returns: a result record.
IsResult(res) ==
  /\ DOMAIN res = {"ok", "exitCode", "msg"}
  /\ res.ok \in BOOLEAN
  /\ res.exitCode \in {0, 1}

\* C12: every command line, `git clone` and `git remote add` with a quoted
\* blank url included, returns a result record: no exception leaves exec.
NoExceptionEscapes ==
  LET returned(o) == IsResult(o.res)
  IN  /\ EveryCommand(returned)
      /\ \A url \in UrlArgs :
           /\ OfStored(returned, "clone", <<url>>, gitClone(repo, remoteStore, url))
           /\ OfStored(returned, "remote", <<"add", "origin", url>>,
                       gitRemoteAdd(repo, remoteStore, "origin", url))

\* C13: deserialize(serialize(repo)) equals the repo, field by field, in
\* every reachable state.
SerializeRoundTrip == deserialize(serialize(repo)) = repo

\* C14: isAncestor is reflexive, antisymmetric and transitive over the
\* commits of every reachable repo.
AncestryIsPartialOrder ==
  LET C == DOMAIN repo.commits
  IN  /\ \A h \in C : isAncestor(repo, h, h)
      /\ \A a, b \in C : (isAncestor(repo, a, b) /\ isAncestor(repo, b, a)) => a = b
      /\ \A a, b, c \in C :
           (isAncestor(repo, a, b) /\ isAncestor(repo, b, c)) => isAncestor(repo, a, c)

\* The learner has committed on top of a history: the new commit has a
\* grandparent, and two commits of the repo are not ancestors of each other.
AncestryIsPartialOrderSeen ==
  /\ repo.lastEvent.type \in {"git_commit", "git_merge", "git_pull_merge"}
  /\ head(repo) >= FirstHash[activeLesson]
  /\ \E a, b \in DOMAIN repo.commits :
       /\ a # b /\ b # head(repo)
       /\ isAncestor(repo, a, b) /\ isAncestor(repo, b, head(repo))
  /\ \E a, b \in DOMAIN repo.commits :
       ~isAncestor(repo, a, b) /\ ~isAncestor(repo, b, a)

\* `git merge b` gets past its refusals, its fast-forward and its "already
\* up to date": neither head is an ancestor of the other.
ThreeWay(r, b) ==
  /\ r.initialized
  /\ ~getStatus(r).isDirty
  /\ Has(r.branches, b)
  /\ head(r) # 0
  /\ r.branches[b] # 0
  /\ ~isAncestor(r, head(r), r.branches[b])
  /\ ~isAncestor(r, r.branches[b], head(r))

\* The snapshot the merge of b into the current branch starts from.
BaseOf(r, b) == getSnapshot(r, findCommonAncestor(r, head(r), r.branches[b]))

\* The paths both sides changed from the base, each in its own way.
Conflicting(r, b) ==
  LET ours == getHeadSnapshot(r)
      theirs == getSnapshot(r, r.branches[b])
  IN  {p \in DOMAIN BaseOf(r, b) \cup DOMAIN ours \cup DOMAIN theirs :
         /\ Opt(ours, p) # Opt(theirs, p)
         /\ Opt(ours, p) # Opt(BaseOf(r, b), p)
         /\ Opt(theirs, p) # Opt(BaseOf(r, b), p)}

\* The tree of a merge without conflicts: for every path the side that
\* changed it from the base, ours when neither did.
MergedOf(r, b) ==
  LET ours == getHeadSnapshot(r)
      theirs == getSnapshot(r, r.branches[b])
      pick(p) == IF Opt(ours, p) = Opt(BaseOf(r, b), p) THEN Opt(theirs, p) ELSE Opt(ours, p)
  IN  [p \in {q \in DOMAIN ours \cup DOMAIN theirs : pick(q) # << >>} |-> pick(p)[1]]

\* C15: when the merge of B into the current branch A is a three-way merge
\* without conflicts and both directions start from the same base, merging
\* B into A and merging A into B each produce a merge commit, and the two
\* commits have the same files.
MergeCommutes ==
  \A B \in BranchArgs :
    LET A == repo.currentBranch
        onB == gitCheckout(repo, <<B>>).repo
        intoA == gitMerge(repo, B, nextHash).repo
        intoB == gitMerge(onB, A, nextHash).repo
    IN  (/\ ThreeWay(repo, B)
         /\ Conflicting(repo, B) = {}
         /\ BaseOf(repo, B) = BaseOf(onB, A))
        => /\ Has(intoA.commits, nextHash)
           /\ Has(intoB.commits, nextHash)
           /\ intoA.commits[nextHash].files = intoB.commits[nextHash].files

\* C16: a three-way merge without conflicts succeeds and stores exactly one
\* commit, with parents [ours, theirs], the message Merge branch 'theirs'
\* and the merged tree as its files; the current branch points at it, the
\* working tree equals its files, the index is empty and mergeState is null.
MergeCommits ==
  \A b \in BranchArgs :
    (ThreeWay(repo, b) /\ Conflicting(repo, b) = {}) =>
      LET o == gitMerge(repo, b, nextHash)
      IN  /\ o.res.ok
          /\ DOMAIN o.repo.commits = DOMAIN repo.commits \cup {nextHash}
          /\ o.repo.commits[nextHash].parents = <<head(repo), repo.branches[b]>>
          /\ o.repo.commits[nextHash].message = <<"Merge branch '", b, "'">>
          /\ o.repo.commits[nextHash].files = MergedOf(repo, b)
          /\ o.repo.currentBranch = repo.currentBranch
          /\ head(o.repo) = nextHash
          /\ o.repo.workingFiles = o.repo.commits[nextHash].files
          /\ o.repo.stagedFiles = EmptyMap
          /\ o.repo.mergeState = Null

\* C17: a three-way merge with a conflicting path returns exit 1, stores no
\* commit, moves no branch, sets mergeState to the incoming branch, its head
\* and exactly the conflicting paths, and writes to each of them the buffer
\* <<<<<<< HEAD, ours, =======, theirs, >>>>>>> branch.
MergeStopsOnConflicts ==
  \A b \in BranchArgs :
    (ThreeWay(repo, b) /\ Conflicting(repo, b) # {}) =>
      LET o == gitMerge(repo, b, nextHash)
          ours == getHeadSnapshot(repo)
          theirs == getSnapshot(repo, repo.branches[b])
      IN  /\ ~o.res.ok
          /\ o.res.exitCode = 1
          /\ o.repo.commits = repo.commits
          /\ o.repo.branches = repo.branches
          /\ o.repo.mergeState =
               [theirBranch |-> b, theirHash |-> repo.branches[b],
                conflicts |-> Conflicting(repo, b)]
          /\ \A p \in Conflicting(repo, b) :
               /\ Has(o.repo.workingFiles, p)
               /\ o.repo.workingFiles[p] =
                    <<"<<<<<<< HEAD">> \o OrEmpty(Opt(ours, p)) \o <<"=======">>
                      \o OrEmpty(Opt(theirs, p)) \o <<">>>>>>> ", b>>

\* The merge of the theme branch has stopped on config.txt: the working file
\* holds both colours between the markers and the merge is pending.
MergeStopsOnConflictsSeen ==
  /\ repo.lastEvent.type = "git_merge_conflict"
  /\ repo.mergeState # Null
  /\ repo.mergeState.conflicts = {CONFIG}
  /\ repo.mergeState.theirHash = repo.branches["feature/theme"]
  /\ repo.workingFiles[CONFIG] =
       <<"<<<<<<< HEAD", "color=red", "=======", "color=green", ">>>>>>> ", "feature/theme">>

\* C18: while a merge is pending with conflicts, a successful `git add p` of
\* a conflicting path p takes exactly p off the conflict list, and no
\* command can create a commit; when the add empties the list, the commit
\* that follows succeeds with parents [HEAD, the incoming head] and leaves
\* mergeState null.
AddResolvesConflict ==
  (repo.mergeState # Null /\ repo.mergeState.conflicts # {}) =>
    /\ \A p \in repo.mergeState.conflicts \cap UserPaths :
         LET o == gitAdd(repo, <<p>>)
             c == gitCommit(o.repo, <<"m">>, nextHash)
         IN  o.res.ok =>
               /\ o.repo.mergeState # Null
               /\ o.repo.mergeState.conflicts = repo.mergeState.conflicts \ {p}
               /\ o.repo.mergeState.conflicts = {} =>
                    /\ c.res.ok
                    /\ Has(c.repo.commits, nextHash)
                    /\ c.repo.commits[nextHash].parents = <<head(repo), repo.mergeState.theirHash>>
                    /\ c.repo.mergeState = Null
    /\ LET none(o) == ~Committed(o)
       IN  EveryCommitting(none)

\* C19: `git stash` followed at once by `git stash pop` brings back the
\* working tree, the index and the stash stack as they were; after two
\* stashes the first pop returns the second entry and the next pop the
\* first.
StashPopRestores ==
  LET s1 == gitStash(repo, << >>)
      back == gitStash(s1.repo, <<"pop">>)
  IN  s1.res.ok =>
        /\ back.res.ok
        /\ back.repo.workingFiles = repo.workingFiles
        /\ back.repo.stagedFiles = repo.stagedFiles
        /\ back.repo.stash = repo.stash
        /\ \A path \in UserPaths, t \in UserTexts :
             LET w == shellWrite(s1.repo, path, t).repo
                 s2 == gitStash(w, << >>)
                 p1 == gitStash(s2.repo, <<"pop">>)
                 p2 == gitStash(p1.repo, <<"pop">>)
             IN  s2.res.ok =>
                   /\ p1.res.ok
                   /\ p1.repo.workingFiles = w.workingFiles
                   /\ p1.repo.stagedFiles = w.stagedFiles
                   /\ p1.repo.stash = s1.repo.stash
                   /\ p2.res.ok
                   /\ p2.repo.workingFiles = repo.workingFiles
                   /\ p2.repo.stagedFiles = repo.stagedFiles
                   /\ p2.repo.stash = repo.stash

\* Two stashes were made and the first pop has run: the working tree is the
\* newer entry's, with its changes, and the older entry is the one left.
StashPopRestoresSeen ==
  /\ repo.lastEvent.type = "git_stash_pop"
  /\ Len(repo.stash) = 1
  /\ repo.workingFiles # getHeadSnapshot(repo)
  /\ repo.workingFiles # repo.stash[1].workingFiles
  /\ repo.stash[1].stagedFiles # EmptyMap

\* C20: on an initialized repo `git stash` is refused with exit 1 and no
\* change when status lists nothing; when it succeeds the stash has one more
\* entry, on top, the working tree is the HEAD snapshot, the index is empty
\* and the repo is clean.
StashOnlyWhenDirty ==
  repo.initialized =>
    LET o == gitStash(repo, << >>)
    IN  /\ StatusClean(repo) => (~o.res.ok /\ o.res.exitCode = 1 /\ o.repo = repo)
        /\ o.res.ok =>
             /\ Len(o.repo.stash) = Len(repo.stash) + 1
             /\ Tail(o.repo.stash) = repo.stash
             /\ o.repo.workingFiles = getHeadSnapshot(o.repo)
             /\ o.repo.stagedFiles = EmptyMap
             /\ ~getStatus(o.repo).isDirty
             /\ StatusClean(o.repo)

\* The stored commits whose hash starts with the prefix.
Matching(r, prefix) == {h \in DOMAIN r.commits : IsPrefix(prefix, HashStr(h))}

\* C21: after a successful reset --hard the current branch is at the target
\* (HEAD: where it was; HEAD~1: the first parent of the old head, none when
\* it has no parent; a prefix: the one commit it matches), the working tree
\* is that head's snapshot, the index is empty, mergeState is null, every
\* commit is still stored and no other branch has moved.
ResetMovesHead ==
  \A target \in ResetArgs :
    LET o == gitReset(repo, "--hard", target)
        old == head(repo)
        firstParent == IF Has(repo.commits, old) /\ repo.commits[old].parents # << >>
                       THEN repo.commits[old].parents[1] ELSE 0
    IN  o.res.ok =>
          /\ target = <<"HEAD">> => head(o.repo) = old
          /\ target = <<"HEAD~1">> => head(o.repo) = firstParent
          /\ target \notin {<<"HEAD">>, <<"HEAD~1">>} => Matching(repo, target) = {head(o.repo)}
          /\ o.repo.workingFiles = getSnapshot(o.repo, head(o.repo))
          /\ o.repo.stagedFiles = EmptyMap
          /\ o.repo.mergeState = Null
          /\ o.repo.commits = repo.commits
          /\ o.repo.currentBranch = repo.currentBranch
          /\ DOMAIN o.repo.branches = DOMAIN repo.branches
          /\ \A b \in DOMAIN repo.branches \ {repo.currentBranch} :
               o.repo.branches[b] = repo.branches[b]

\* A reset has left a commit behind: it is stored and no branch reaches it,
\* while the working tree is the snapshot of the head the branch is at now.
ResetMovesHeadSeen ==
  /\ repo.lastEvent.type = "git_reset_hard"
  /\ head(repo) # 0
  /\ repo.workingFiles = getHeadSnapshot(repo)
  /\ repo.stagedFiles = EmptyMap
  /\ \E h \in DOMAIN repo.commits :
       h \notin reach(repo.commits, {repo.branches[b] : b \in DOMAIN repo.branches}, {})

\* C22: a prefix given to reset --hard or revert that matches no stored
\* commit, or more than one, reachable or not, makes the command fail with
\* exit 1 and no change; the command goes on only with the one commit whose
\* hash starts with the prefix.
AmbiguousPrefixFails ==
  repo.initialized =>
    \A prefix \in HashArgs :
      LET rs == gitReset(repo, "--hard", prefix)
          rv == gitRevert(repo, prefix, nextHash)
      IN  /\ Cardinality(Matching(repo, prefix)) # 1 =>
               /\ ~rs.res.ok /\ rs.res.exitCode = 1 /\ rs.repo = repo
               /\ ~rv.res.ok /\ rv.res.exitCode = 1 /\ rv.repo = repo
          /\ rs.res.ok => Matching(repo, prefix) = {head(rs.repo)}
          /\ rv.res.ok =>
               \E h \in Matching(repo, prefix) :
                 /\ Matching(repo, prefix) = {h}
                 /\ rv.repo.commits[nextHash].message = <<"Revert \"">> \o repo.commits[h].message \o <<"\"">>

\* After a reset two stored commits share a prefix of the inputs, one of
\* them reachable from no branch, and a reset to that prefix is refused.
AmbiguousPrefixSeen ==
  /\ repo.lastEvent.type = "git_reset_hard"
  /\ \E prefix \in HashArgs :
       /\ Cardinality(Matching(repo, prefix)) >= 2
       /\ \E h \in Matching(repo, prefix) :
            h \notin reach(repo.commits, {repo.branches[b] : b \in DOMAIN repo.branches}, {})
       /\ gitReset(repo, "--hard", prefix).res = Fail("fatal: ambiguous argument")

\* C23: no command but clone deletes or changes a stored commit: every hash
\* of `commits` is still there afterwards with the same message, parents and
\* files.
CommitsAreKept ==
  LET kept(o) ==
        o.cmd # "clone" =>
          \A h \in DOMAIN repo.commits :
            Has(o.repo.commits, h) /\ o.repo.commits[h] = repo.commits[h]
  IN  EveryCommand(kept)

\* A revert has added its commit on top of the lesson's history, which is
\* all still stored as the lesson's setup made it.
CommitsAreKeptSeen ==
  /\ repo.lastEvent.type = "git_revert"
  /\ Len(repo.commitOrder) > Len(Loaded(activeLesson).repo.commitOrder)
  /\ Loaded(activeLesson).repo.commitOrder # << >>
  /\ \A h \in DOMAIN Loaded(activeLesson).repo.commits :
       Has(repo.commits, h) /\ repo.commits[h] = Loaded(activeLesson).repo.commits[h]

CommitSnapshot ==
  LET o == gitCommit(repo, <<"m">>, nextHash)
      was == getHeadSnapshot(repo)
  IN  o.res.ok =>
        /\ ~Has(repo.commits, nextHash)
        /\ DOMAIN o.repo.commits = DOMAIN repo.commits \cup {nextHash}
        /\ \A h \in DOMAIN repo.commits : o.repo.commits[h] = repo.commits[h]
        /\ \A p \in DOMAIN was \cup DOMAIN repo.stagedFiles \cup DOMAIN o.repo.commits[nextHash].files :
             Opt(o.repo.commits[nextHash].files, p) =
               IF ~Has(repo.stagedFiles, p) THEN Opt(was, p)
               ELSE IF repo.stagedFiles[p].del THEN << >>
               ELSE <<repo.stagedFiles[p].content>>
        /\ head(repo) # 0 => o.repo.commits[nextHash].parents[1] = head(repo)
        /\ head(repo) = 0 => o.repo.commits[nextHash].parents = << >>
        /\ o.repo.currentBranch = repo.currentBranch
        /\ head(o.repo) = nextHash
        /\ DOMAIN o.repo.branches = DOMAIN repo.branches
        /\ \A b \in DOMAIN repo.branches \ {repo.currentBranch} :
             o.repo.branches[b] = repo.branches[b]

\* A commit of a staged deletion has run: the new head lacks a path its
\* parent holds.
CommitSnapshotSeen ==
  /\ repo.lastEvent.type = "git_commit"
  /\ Has(repo.commits, head(repo))
  /\ Len(repo.commits[head(repo)].parents) = 1
  /\ \E p \in DOMAIN getSnapshot(repo, repo.commits[head(repo)].parents[1]) :
       ~Has(repo.commits[head(repo)].files, p)

\* C28: for each path of base, ours and theirs a three-way merge leaves ours
\* when ours = theirs (nothing when both deleted it), theirs when ours is
\* the base, ours when theirs is the base; the paths it reports as conflicts
\* are exactly those where ours, theirs and base are pairwise different, an
\* absent file being a value of its own.
ThreeWayRule ==
  \A b \in BranchArgs :
    ThreeWay(repo, b) =>
      LET o == gitMerge(repo, b, nextHash).repo
          base == BaseOf(repo, b)
          ours == getHeadSnapshot(repo)
          theirs == getSnapshot(repo, repo.branches[b])
      IN  /\ conflictsOf(o) = Conflicting(repo, b)
          /\ \A p \in DOMAIN base \cup DOMAIN ours \cup DOMAIN theirs :
               /\ Opt(ours, p) = Opt(theirs, p) => Opt(o.workingFiles, p) = Opt(ours, p)
               /\ (Opt(ours, p) # Opt(theirs, p) /\ Opt(ours, p) = Opt(base, p)) =>
                    Opt(o.workingFiles, p) = Opt(theirs, p)
               /\ (Opt(ours, p) # Opt(theirs, p) /\ Opt(ours, p) # Opt(base, p)
                     /\ Opt(theirs, p) = Opt(base, p)) =>
                    Opt(o.workingFiles, p) = Opt(ours, p)

\* A merge without conflicts has made its commit and took a change from
\* theirs: the merge commit differs from its first parent on a path.
ThreeWayRuleSeen ==
  /\ repo.lastEvent.type = "git_merge"
  /\ Has(repo.commits, head(repo))
  /\ Len(repo.commits[head(repo)].parents) = 2
  /\ repo.commits[head(repo)].files # getSnapshot(repo, repo.commits[head(repo)].parents[1])
  /\ repo.commits[head(repo)].files = getSnapshot(repo, repo.commits[head(repo)].parents[2])

\* The members of a set of paths, one after the other.
RECURSIVE AsArgs(_)
AsArgs(S) == IF S = {} THEN << >> ELSE LET p == CHOOSE q \in S : TRUE IN <<p>> \o AsArgs(S \ {p})

\* C29: when a merge stops on conflicts and is concluded by `git add` of the
\* conflicting paths and `commit`, the merge commit holds the three-way
\* result on every other path (what theirs added, changed or deleted) and
\* the added content on the conflicting ones.
ConcludedMergeKeepsTheirs ==
  \A b \in BranchArgs :
    (ThreeWay(repo, b) /\ Conflicting(repo, b) # {}) =>
      LET stopped == gitMerge(repo, b, nextHash).repo
          added == gitAdd(stopped, AsArgs(Conflicting(repo, b)))
          c == gitCommit(added.repo, <<"m">>, nextHash)
          base == BaseOf(repo, b)
          ours == getHeadSnapshot(repo)
          theirs == getSnapshot(repo, repo.branches[b])
      IN  /\ added.res.ok
          /\ c.res.ok
          /\ c.repo.commits[nextHash].parents = <<head(repo), repo.branches[b]>>
          /\ \A p \in DOMAIN base \cup DOMAIN ours \cup DOMAIN theirs :
               Opt(c.repo.commits[nextHash].files, p) =
                 IF p \in Conflicting(repo, b) THEN Opt(stopped.workingFiles, p)
                 ELSE IF Opt(ours, p) = Opt(base, p) THEN Opt(theirs, p)
                 ELSE Opt(ours, p)

\* C30: `git merge b` when b's head is an ancestor of the current head, or
\* is the current head, answers "Already up to date." and changes nothing,
\* lastEvent included.
MergeOfAncestorIsNoOp ==
  \A b \in BranchArgs :
    (/\ repo.initialized
     /\ ~getStatus(repo).isDirty
     /\ Has(repo.branches, b)
     /\ repo.branches[b] # 0
     /\ repo.branches[b] \in reach(repo.commits, {head(repo)}, {}))
    => /\ gitMerge(repo, b, nextHash).res = Ok("Already up to date.")
       /\ gitMerge(repo, b, nextHash).repo = repo

\* C24: "Reset repo" leaves the working tree, the index, the commits, the
\* branches, the current branch, the merge state, the stash and the remotes
\* equal to what they were when the current step began, and leaves the step
\* index, the completion flag and the checkpoints of earlier steps as they
\* are.
ResetRepoRestoresStep ==
  LET out == resetRepoToCheckpoint(app, activeLesson, remoteStore, nextHash)
      was == app.began[activeLesson][app.stepIndex]
  IN  /\ \A f \in {"workingFiles", "stagedFiles", "commits", "branches", "currentBranch",
                   "mergeState", "stash", "remotes"} : out.repo[f] = was[f]
      /\ out.app.stepIndex = app.stepIndex
      /\ out.app.lessons[activeLesson].completed = app.lessons[activeLesson].completed
      /\ \A k \in DOMAIN app.checkpoints :
           k < app.stepIndex => out.app.checkpoints[k] = app.checkpoints[k]

\* C25: a handler leaves every earned badge as it is, earnedAt included, and
\* prints no unlock line for it; earnBadge on an earned badge returns the
\* App unchanged.
BadgesAreKept ==
  [][\A b \in BadgeIds :
       app.badges[b].earned =>
         /\ app'.badges[b] = app.badges[b]
         /\ app'.unlocked[b] = app.unlocked[b]
         /\ app.unlocked[b] = 1
         /\ earnBadge(app, b, Now) = app]_vars

\* The init badge was earned by an earlier handler, and the last handler
\* awarded it again: in lesson1, whose setup leaves no event, `git init`
\* has run and the handlers since (commands, quiz) kept its event.
BadgesAreKeptSeen ==
  /\ activeLesson = "lesson1"
  /\ repo.lastEvent.type = "git_init"
  /\ app.badges["badge_first_init"].earned
  /\ app.badges["badge_first_init"].earnedAt < Now - 1
  /\ app.unlocked["badge_first_init"] = 1

\* C31: getStatus lists a path as untracked exactly when it is in the
\* working tree and in neither the HEAD snapshot nor the index, so a staged
\* path is never untracked; and no path of the conflict list is in the
\* staged, unstaged or untracked list.
UntrackedIsUnknownToGit ==
  /\ \A p \in listAllPaths(repo) :
       p \in getStatus(repo).untracked <=>
         /\ Has(repo.workingFiles, p)
         /\ ~Has(getHeadSnapshot(repo), p)
         /\ ~Has(repo.stagedFiles, p)
  /\ \A p \in conflictsOf(repo) :
       /\ p \notin getStatus(repo).staged
       /\ p \notin getStatus(repo).unstaged
       /\ p \notin getStatus(repo).untracked

\* The remote repo and the remote branch head a `git pull` without arguments
\* reads: the upstream of the current branch, origin/<current branch>
\* without one.
PulledRepo(r, store) ==
  store[r.remotes[IF Has(r.upstreams, r.currentBranch)
                  THEN r.upstreams[r.currentBranch].remote ELSE "origin"].url]

PulledHead(r, store) ==
  PulledRepo(r, store).branches[IF Has(r.upstreams, r.currentBranch)
                                THEN r.upstreams[r.currentBranch].branch
                                ELSE r.currentBranch]

\* C32: after a successful pull every commit of the remote repo is a local
\* commit, and the ones that were missing follow the old commitOrder in the
\* remote's order.  When the local head was null or an ancestor of the
\* remote head, the head is the remote head, the working tree is its
\* snapshot and no commit was created; when the remote head was an ancestor
\* of the local head, head and working tree are unchanged.
PullBringsRemote ==
  LET o == gitPull(repo, remoteStore, << >>, nextHash)
      remote == PulledRepo(repo, remoteStore)
      theirs == PulledHead(repo, remoteStore)
      all == [h \in DOMAIN repo.commits \cup DOMAIN remote.commits |->
                IF Has(repo.commits, h) THEN repo.commits[h] ELSE remote.commits[h]]
      missing == SelectSeq(remote.commitOrder, LAMBDA h : ~Has(repo.commits, h))
  IN  o.res.ok =>
        /\ \A h \in DOMAIN remote.commits : Has(o.repo.commits, h)
        /\ \A h \in DOMAIN remote.commits \ DOMAIN repo.commits :
             o.repo.commits[h] = remote.commits[h]
        /\ SubSeq(o.repo.commitOrder, 1, Len(repo.commitOrder) + Len(missing))
             = repo.commitOrder \o missing
        /\ (head(repo) = 0 \/ head(repo) \in reach(all, {theirs}, {})) =>
             /\ head(o.repo) = theirs
             /\ o.repo.workingFiles = all[theirs].files
             /\ DOMAIN o.repo.commits = DOMAIN all
        /\ theirs \in reach(all, {head(repo)}, {}) =>
             /\ head(o.repo) = head(repo)
             /\ o.repo.workingFiles = repo.workingFiles

\* A pull has fast-forwarded to a commit it imported: the head is the head
\* of origin/main and the working tree shows the teammate's README.
PullBringsRemoteSeen ==
  /\ repo.lastEvent.type = "git_pull_ff"
  /\ Has(repo.remotes, "origin")
  /\ Has(remoteStore, repo.remotes["origin"].url)
  /\ head(repo) = remoteStore[repo.remotes["origin"].url].branches["main"]
  /\ Len(repo.commitOrder) >= 3
  /\ repo.workingFiles = repo.commits[head(repo)].files

\* C33: a pull, whatever its outcome, leaves the set of local branch names
\* unchanged and changes the head of no branch other than the current one:
\* no `__remote_<remote>/<branch>` name is added and no branch that existed
\* before is removed or moved.
PullKeepsBranches ==
  LET o == gitPull(repo, remoteStore, << >>, nextHash)
  IN  /\ DOMAIN o.repo.branches = DOMAIN repo.branches
      /\ \A b \in DOMAIN repo.branches \ {repo.currentBranch} :
           o.repo.branches[b] = repo.branches[b]

\* The same for the branches that do not carry the temporary name of the pull.
PullKeepsOtherBranches ==
  LET o == gitPull(repo, remoteStore, << >>, nextHash)
      tmp == {TmpName("origin", b) : b \in DOMAIN repo.branches}
  IN  /\ DOMAIN o.repo.branches \ tmp = DOMAIN repo.branches \ tmp
      /\ \A b \in DOMAIN repo.branches \ ({repo.currentBranch} \cup tmp) :
           o.repo.branches[b] = repo.branches[b]

\* The commits a hash argument names without ambiguity.
NamedBy(r, hashArg) == {h \in DOMAIN r.commits : IsPrefix(hashArg, HashStr(h))}

\* C34: after a successful `git revert C` run with HEAD = H, the head is a
\* new commit whose only parent is H and whose message is Revert "<message
\* of C>"; its snapshot is H's snapshot where every path on which C differs
\* from its first parent has the first parent's content (and is absent when
\* C added it).  Reverting the HEAD commit gives the snapshot of HEAD's
\* first parent.
RevertUndoesCommit ==
  \A hashArg \in HashArgs :
    LET o == gitRevert(repo, hashArg, nextHash)
        H == head(repo)
    IN  (H # 0 /\ o.res.ok) =>
          \A C \in NamedBy(repo, hashArg) :
            LET c == repo.commits[C]
                before == IF c.parents = << >> THEN EmptyMap ELSE repo.commits[c.parents[1]].files
                ours == getHeadSnapshot(repo)
                made == o.repo.commits[head(o.repo)]
            IN  /\ ~Has(repo.commits, head(o.repo))
                /\ made.parents = <<H>>
                /\ made.message = RevertMessage(c.message)
                /\ \A p \in DOMAIN before \cup DOMAIN c.files \cup DOMAIN ours \cup DOMAIN made.files :
                     Opt(made.files, p) = IF Opt(before, p) # Opt(c.files, p)
                                          THEN Opt(before, p) ELSE Opt(ours, p)
                /\ C = H => made.files = before

\* The same while no merge is pending.
RevertOutsideMerge == repo.mergeState = Null => RevertUndoesCommit

\* The revert of the HEAD commit has been committed on top of it.
RevertUndoesCommitSeen ==
  /\ repo.lastEvent.type = "git_revert"
  /\ head(repo) # 0
  /\ repo.commits[head(repo)].parents # << >>
  /\ repo.commits[head(repo)].message
       = RevertMessage(repo.commits[repo.commits[head(repo)].parents[1]].message)

\* C35: in an initialized repo whose head has no first parent (a root commit
\* or an unborn branch), `git reset --hard HEAD~1` fails with exit code 1 and
\* leaves head, working tree and index as they were; and no successful reset
\* leaves a branch that had commits without a head.
ResetKeepsBranchBorn ==
  /\ LET o == gitReset(repo, "--hard", <<"HEAD~1">>)
     IN  (/\ ensureInitialized(repo)
          /\ (head(repo) = 0 \/ repo.commits[head(repo)].parents = << >>)) =>
           /\ ~o.res.ok
           /\ o.res.exitCode = 1
           /\ head(o.repo) = head(repo)
           /\ o.repo.workingFiles = repo.workingFiles
           /\ o.repo.stagedFiles = repo.stagedFiles
  /\ \A target \in ResetArgs :
       LET o == gitReset(repo, "--hard", target)
       IN  (o.res.ok /\ head(repo) # 0) => head(o.repo) # 0

\* The same for the targets other than HEAD~1.
ResetToNamedKeepsBranchBorn ==
  \A target \in ResetArgs \ {<<"HEAD~1">>} :
    LET o == gitReset(repo, "--hard", target)
    IN  (o.res.ok /\ head(repo) # 0) => head(o.repo) # 0

\* The length of the shortest parent path from commit `from` to commit `to`
\* (`to` is reached from `from`).
RECURSIVE PathLength(_, _, _, _)
PathLength(commits, layer, to, d) ==
  IF to \in layer THEN d
  ELSE PathLength(commits,
                  UNION {Range(commits[c].parents) : c \in layer \cap DOMAIN commits} \ {0},
                  to, d + 1)

\* The commits reached from both a and b.
CommonAncestors(r, a, b) == reach(r.commits, {a}, {}) \cap reach(r.commits, {b}, {})

\* The sum of the shortest parent-path distances from a and from b to h.
SummedDistance(r, a, b, h) ==
  PathLength(r.commits, {a}, h, 0) + PathLength(r.commits, {b}, h, 0)

\* C36: for two commits with a common ancestor, findCommonAncestor returns
\* a common ancestor whose summed shortest parent-path distance from the two
\* is the least; it returns null only when they have no common ancestor.
CommonAncestorIsNearest ==
  \A a, b \in DOMAIN repo.commits :
    LET found == findCommonAncestor(repo, a, b)
        common == CommonAncestors(repo, a, b)
    IN  /\ found = 0 <=> common = {}
        /\ found # 0 =>
             /\ found \in common
             /\ \A h \in common :
                  SummedDistance(repo, a, b, found) <= SummedDistance(repo, a, b, h)

\* A pull has merged two commits whose nearest common ancestor is a third
\* commit that has an ancestor of its own.
CommonAncestorIsNearestSeen ==
  /\ repo.lastEvent.type = "git_pull_merge"
  /\ Len(repo.commits[head(repo)].parents) = 2
  /\ LET ours == repo.commits[head(repo)].parents[1]
         theirs == repo.commits[head(repo)].parents[2]
         found == findCommonAncestor(repo, ours, theirs)
     IN  /\ found \notin {0, ours, theirs}
         /\ repo.commits[found].parents # << >>

\* commitOrder lists every key of commits once and nothing else.
ListsItsCommits(r) ==
  /\ Range(r.commitOrder) = DOMAIN r.commits
  /\ Len(r.commitOrder) = Cardinality(DOMAIN r.commits)

\* C40: in every reachable state, the commitOrder of the local repo and of
\* every repo of the remote store lists each key of its commits map exactly
\* once and lists nothing else.
CommitOrderListsCommits ==
  /\ ListsItsCommits(repo)
  /\ \A url \in DOMAIN remoteStore : ListsItsCommits(remoteStore[url])

\* A push has added a commit of the learner to the seeded remote, which held
\* commits already.
CommitOrderListsCommitsSeen ==
  /\ repo.lastEvent.type = "git_push"
  /\ Has(remoteStore, seedRemoteUrl)
  /\ Len(remoteStore[seedRemoteUrl].commitOrder) >= 3
  /\ head(repo) \in Range(remoteStore[seedRemoteUrl].commitOrder)
  /\ head(repo) >= FirstHash[activeLesson]

\* C37: within a lesson the step index stays between 0 and the number of
\* steps and a checkpoint exists for every index up to it; the lesson is
\* marked completed exactly when the index is the number of steps; and a
\* command never lowers the index, raises it past step i only when the
\* validator of step i holds of the command and the repo it left, and stops
\* at the first step whose validator does not hold or at the end.
StepsAdvanceInOrder ==
  /\ app.stepIndex \in 0..stepCount(activeLesson)
  /\ \A i \in 0..app.stepIndex : Has(app.checkpoints, i)
  /\ app.lessons[activeLesson].completed <=> app.stepIndex = stepCount(activeLesson)
  /\ \A line \in CommandLines :
       LET o == runCommand(app, activeLesson, repo, remoteStore, line, nextHash, Now)
       IN  /\ o.app.stepIndex >= app.stepIndex
           /\ o.app.stepIndex <= stepCount(activeLesson)
           /\ \A i \in app.stepIndex..(o.app.stepIndex - 1) :
                validate([o.app EXCEPT !.stepIndex = i], activeLesson, i, line, o.repo)
           /\ \/ o.app.stepIndex = stepCount(activeLesson)
              \/ ~validate(o.app, activeLesson, o.app.stepIndex, line, o.repo)

\* Lesson 1 has been completed: the five steps were passed in order, one
\* checkpoint was stored for each, and the lesson is marked.
StepsAdvanceInOrderSeen ==
  /\ activeLesson = "lesson1"
  /\ app.stepIndex = stepCount("lesson1")
  /\ DOMAIN app.checkpoints = 0..stepCount("lesson1")
  /\ app.lessons["lesson1"].completed
  /\ app.badges[completeBadge("lesson1")].earned

\* The handler that left `after` awarded badge b.
Awarded(after, b) == after.badges[b].earned /\ ~app.badges[b].earned

\* C39: badge_first_init is awarded only by a learner's `git init`, and
\* badge_first_commit only by a learner's commit command that succeeded; no
\* other command and no quiz awards them, whatever the lesson's setup did.
BadgesFollowLearnerEvents ==
  /\ \A line \in CommandLines :
       LET x == exec(repo, remoteStore, line, nextHash)
           o == runCommand(app, activeLesson, repo, remoteStore, line, nextHash, Now)
       IN  /\ Awarded(o.app, "badge_first_init") => (line = <<"git", "init">> /\ x.res.ok)
           /\ Awarded(o.app, "badge_first_commit") =>
                (SubSeq(line, 1, 2) = <<"git", "commit">> /\ x.res.ok)
  /\ \A passed \in BOOLEAN :
       LET q == submitQuiz(app, activeLesson, repo, passed, Now)
       IN  ~Awarded(q, "badge_first_init") /\ ~Awarded(q, "badge_first_commit")

\* The same where the repo holds no event, or the init badge is earned already.
BadgesFollowEventsAfterSetup ==
  (repo.lastEvent = NoEvent \/ app.badges["badge_first_init"].earned)
    => BadgesFollowLearnerEvents

\* The commits the learner has made in repo r since the lesson's fresh load:
\* those its first checkpoint does not hold, the teammate's apart.
MadeSinceClone(r, lessonId) ==
  {h \in DOMAIN r.commits \ DOMAIN app.began[lessonId][0].commits :
     r.commits[h].message # <<"Teammate: update README">>}

\* C38: in lesson 5, a command completes the step "Make a commit locally"
\* (index 1) only when the repo holds a commit the learner made since the
\* clone, whatever lessons were loaded and reset before.
LocalCommitStepNeedsCommit ==
  activeLesson = "lesson5" =>
    \A line \in RemoteLines :
      LET o == runCommand(app, activeLesson, repo, remoteStore, line, nextHash, Now)
      IN  (app.stepIndex <= 1 /\ o.app.stepIndex >= 2) => MadeSinceClone(o.repo, "lesson5") # {}

\* A fresh setup of a clone-based lesson clones the two seeded commits.
FreshCloneHoldsSeed ==
  \A l \in RemoteLessons :
    Len(resetLesson(app, l, remoteStore, nextHash).repo.commitOrder) = 2

\* C38 while the seed remote holds the two seeded commits only.
LocalCommitStepOnSeed ==
  Len(remoteStore[seedRemoteUrl].commitOrder) = 2 => LocalCommitStepNeedsCommit

====
